---- MODULE Spec2Model ----
(***************************************************************************)
(* A model of the learning pipeline of src/ai/learning_engine.py:          *)
(* SimpleTextAnalyzer, SimplePatternAnalyzer and LearningEngine.           *)
(*                                                                         *)
(* Python values are tagged records ([t |-> "str", v |-> ...]), so that    *)
(* truthiness (`not x`, `x or y`), missing values (None) and values of the *)
(* wrong type behave as they do in Python.  A call that can raise returns  *)
(* an outcome record: Ok(value) or Raise(message).  Floats are modelled as *)
(* exact reduced fractions [n, d].  Texts are strings, read character by   *)
(* character.                                                              *)
(***************************************************************************)
EXTENDS Integers, Sequences, FiniteSets, TLC

(* ------------------------------------------------------------------ *)
(* Bounds of the model                                                 *)
(* ------------------------------------------------------------------ *)
\* longest interaction list handed to process_user_interactions
MaxLen == 3
\* longest list of a batch of interactions of two kinds
MaxBatch == 11
\* most committed upserts made before the learning handler runs
MaxUpserts == 3
\* longest list of each of two concurrent calls
MaxPairLen == 2
\* longest list that mixes processed and unprocessed interactions
MaxMixed == 11
MaxRequests == 4
MaxClock == 4
MaxAnswered == 3
MaxStored == 2
\* most lexemes in a generated input text
MaxWords == 3
\* largest elapsed wall-clock time of one run, in half milliseconds
MaxElapsedHalfMs == 3

(* ------------------------------------------------------------------ *)
(* Python values                                                       *)
(* ------------------------------------------------------------------ *)
PyNone == [t |-> "None"]
PyStr(s) == [t |-> "str", v |-> s]
PyInt(n) == [t |-> "int", v |-> n]
PyFloat(q) == [t |-> "float", v |-> q]
PyList(l) == [t |-> "list", v |-> l]
PyBool(b) == [t |-> "bool", v |-> b]
\* a datetime, as whole hours since a Monday 00:00
PyDateTime(h) == [t |-> "datetime", v |-> h]

\* outcome of a call: a returned value, or an exception with its message
Ok(v) == [raised |-> FALSE, val |-> v]
Raise(msg) == [raised |-> TRUE, exc |-> msg]
\* a returned value together with the messages the call passed to logger.error
Logged(v, msgs) == [raised |-> FALSE, val |-> v, logs |-> msgs]

(* ------------------------------------------------------------------ *)
(* Floats as exact fractions                                           *)
(* ------------------------------------------------------------------ *)
Abs(n) == IF n < 0 THEN -n ELSE n

RECURSIVE GCD(_, _)
GCD(a, b) == IF b = 0 THEN a ELSE GCD(b, a % b)

\* the fraction n/d (d > 0), reduced
Frac(n, d) == LET g == GCD(Abs(n), d) IN [n |-> n \div g, d |-> d \div g]
FracOfInt(n) == [n |-> n, d |-> 1]
FracAdd(a, b) == Frac(a.n * b.d + b.n * a.d, a.d * b.d)
FracMul(a, b) == Frac(a.n * b.n, a.d * b.d)
FracDivInt(a, k) == Frac(a.n, a.d * k)
FracLt(a, b) == a.n * b.d < b.n * a.d
FracLe(a, b) == a.n * b.d <= b.n * a.d
FracMax(a, b) == IF FracLt(a, b) THEN b ELSE a
FracMin(a, b) == IF FracLt(b, a) THEN b ELSE a

\* the numeric value of an int, float or bool as a fraction
NumOf(x) == CASE x.t = "float" -> x.v
              [] x.t = "int" -> FracOfInt(x.v)
              [] x.t = "bool" -> FracOfInt(IF x.v THEN 1 ELSE 0)

IsNumber(x) == x.t \in {"int", "float", "bool"}

\* Python truthiness: bool(x)
Truthy(x) == CASE x.t = "None" -> FALSE
               [] x.t = "str" -> x.v # ""
               [] x.t = "list" -> x.v # <<>>
               [] x.t = "bool" -> x.v
               [] x.t \in {"int", "float"} -> NumOf(x).n # 0
               [] OTHER -> TRUE

\* Python `a or b`
PyOr(a, b) == IF Truthy(a) THEN a ELSE b

(* ------------------------------------------------------------------ *)
(* Characters                                                          *)
(* ------------------------------------------------------------------ *)
UpperCase == "ABCDEFGHIJKLMNOPQRSTUVWXYZ"
LowerCase == "abcdefghijklmnopqrstuvwxyz"
Digits == "0123456789"
Whitespace == " \t\n\r"

CharAt(s, i) == SubSeq(s, i, i)
\* the characters of a string, as a set
CharsOf(chars) == {CharAt(chars, i) : i \in 1..Len(chars)}
InChars(c, chars) == c \in CharsOf(chars)

UpperChars == CharsOf(UpperCase)
\* str.lower() of the upper case letters
LowerOfUpper ==
    [c \in UpperChars |->
        CharAt(LowerCase, CHOOSE i \in 1..Len(UpperCase) : CharAt(UpperCase, i) = c)]
\* str.lower() of one character
LowerChar(c) == IF c \in UpperChars THEN LowerOfUpper[c] ELSE c

\* regex \w and \s
WordChars == CharsOf(LowerCase) \cup CharsOf(UpperCase) \cup CharsOf(Digits) \cup {"_"}
SpaceChars == CharsOf(Whitespace)
IsWordChar(c) == c \in WordChars
IsSpaceChar(c) == c \in SpaceChars

RECURSIVE LowerRange(_, _, _)
\* the characters lo..hi of s, lowercased (halved, to keep the recursion shallow)
LowerRange(s, lo, hi) ==
    IF lo > hi THEN ""
    ELSE IF lo = hi THEN LowerChar(CharAt(s, lo))
    ELSE LowerRange(s, lo, (lo + hi) \div 2) \o LowerRange(s, ((lo + hi) \div 2) + 1, hi)
\* str.lower()
Lower(s) == LowerRange(s, 1, Len(s))

RECURSIVE SubPunctRange(_, _, _)
SubPunctRange(s, lo, hi) ==
    IF lo > hi THEN ""
    ELSE IF lo = hi
    THEN (IF IsWordChar(CharAt(s, lo)) \/ IsSpaceChar(CharAt(s, lo)) THEN CharAt(s, lo) ELSE " ")
    ELSE SubPunctRange(s, lo, (lo + hi) \div 2) \o SubPunctRange(s, ((lo + hi) \div 2) + 1, hi)
\* re.sub(r'[^\w\s]', ' ', s)
SubPunct(s) == SubPunctRange(s, 1, Len(s))

\* the positions where a run of non-whitespace characters begins
RunStarts(s) ==
    {i \in 1..Len(s) : ~IsSpaceChar(CharAt(s, i)) /\ (i = 1 \/ IsSpaceChar(CharAt(s, i - 1)))}
\* the positions where a run of non-whitespace characters ends
RunEnds(s) ==
    {i \in 1..Len(s) : ~IsSpaceChar(CharAt(s, i)) /\ (i = Len(s) \/ IsSpaceChar(CharAt(s, i + 1)))}
\* the k-th of the positions
KthOf(positions, k) ==
    CHOOSE i \in positions : Cardinality({j \in positions : j < i}) = k - 1
\* the k-th run begins at the k-th start and ends at the k-th end
SplitAt(s, starts, ends) ==
    [k \in 1..Cardinality(starts) |-> SubSeq(s, KthOf(starts, k), KthOf(ends, k))]
\* str.split(): the maximal runs of non-whitespace characters
Split(s) == SplitAt(s, RunStarts(s), RunEnds(s))

\* Python `kw in text` on strings
Contains(text, kw) ==
    \E i \in 1..(Len(text) - Len(kw) + 1) : SubSeq(text, i, i + Len(kw) - 1) = kw

(* ------------------------------------------------------------------ *)
(* collections.Counter: <<key, count>> pairs in first-insertion order  *)
(* ------------------------------------------------------------------ *)
\* the positions at which an item occurs for the first time
FirstSeen(items) == {i \in 1..Len(items) : \A j \in 1..(i - 1) : items[j] # items[i]}
\* the keys in the order of their first insertion, each with its count
CounterAt(items, firsts) ==
    [k \in 1..Cardinality(firsts) |->
        <<items[KthOf(firsts, k)],
          Cardinality({j \in 1..Len(items) : items[j] = items[KthOf(firsts, k)]})>>]
\* Counter(items)
Counter(items) == CounterAt(items, FirstSeen(items))

\* the sequence without its i-th element
RemoveAt(c, i) == SubSeq(c, 1, i - 1) \o SubSeq(c, i + 1, Len(c))

\* index of the first pair with the largest count
FirstMax(c) ==
    CHOOSE i \in 1..Len(c) :
        /\ \A j \in 1..Len(c) : c[j][2] <= c[i][2]
        /\ \A j \in 1..(i - 1) : c[j][2] < c[i][2]

RECURSIVE most_common(_, _)
\* Counter.most_common(n): by count descending, equal counts in insertion order
most_common(c, n) ==
    IF n = 0 \/ c = <<>> THEN <<>>
    ELSE LET i == FirstMax(c) IN <<c[i]>> \o most_common(RemoveAt(c, i), n - 1)

(* ------------------------------------------------------------------ *)
(* SimpleTextAnalyzer                                                  *)
(* ------------------------------------------------------------------ *)
stop_words ==
    {"a", "an", "and", "are", "as", "at", "be", "by", "for", "from",
     "has", "he", "in", "is", "it", "its", "of", "on", "that", "the",
     "to", "was", "were", "will", "with", "i", "you", "me", "we", "they",
     "this", "these", "those", "am", "can", "could", "should",
     "would", "have", "had"}

positive_words ==
    {"love", "like", "enjoy", "amazing", "awesome", "great", "fantastic",
     "wonderful", "excellent", "perfect", "good", "best", "beautiful",
     "happy", "pleased", "excited", "thrilled", "appreciate", "thanks"}

negative_words ==
    {"hate", "dislike", "awful", "terrible", "horrible", "bad", "worst",
     "annoying", "frustrated", "angry", "disappointed", "confused",
     "difficult", "problem", "issue", "wrong", "error", "fail"}

\* text.lower() on a value that may not be a string
str_lower(text) ==
    CASE text.t = "str" -> Ok(Lower(text.v))
      [] text.t = "None" -> Raise("'NoneType' object has no attribute 'lower'")
      [] OTHER -> Raise("'" \o text.t \o "' object has no attribute 'lower'")

simple_tokenize(text) ==
    LET low == str_lower(text)
    IN IF low.raised THEN low ELSE Ok(Split(SubPunct(low.val)))

CountIn(tokens, words) == Cardinality({i \in 1..Len(tokens) : tokens[i] \in words})

Max2(a, b) == IF a < b THEN b ELSE a

\* SentimentScore without the clamp to [-1, 1]
SentimentScoreUnclamped(tokens) ==
    IF CountIn(tokens, positive_words) + CountIn(tokens, negative_words) = 0
    THEN FracOfInt(0)
    ELSE FracMul(Frac(CountIn(tokens, positive_words) - CountIn(tokens, negative_words),
                      Max2(Len(tokens), 1)),
                 FracOfInt(2))

\* the score of a token list (the body of the try block)
SentimentScore(tokens) ==
    LET positive_count == CountIn(tokens, positive_words)
        negative_count == CountIn(tokens, negative_words)
    IN IF positive_count + negative_count = 0
       THEN FracOfInt(0)
       ELSE LET sentiment == Frac(positive_count - negative_count, Max2(Len(tokens), 1))
            IN FracMax(FracOfInt(-1), FracMin(FracOfInt(1), FracMul(sentiment, FracOfInt(2))))

analyze_sentiment(text) ==
    LET tokens == simple_tokenize(text)
    IN IF tokens.raised
       THEN Logged(PyFloat(FracOfInt(0)), <<"Sentiment analysis error: " \o tokens.exc>>)
       ELSE Logged(PyFloat(SentimentScore(tokens.val)), <<>>)

\* FilterTokens with the length test written len(token) >= 2
FilterTokensKeepShort(tokens) ==
    SelectSeq(tokens, LAMBDA token : token \notin stop_words /\ Len(token) >= 2)

FilterTokens(tokens) ==
    SelectSeq(tokens, LAMBDA token : token \notin stop_words /\ Len(token) > 2)

Keys(pairs) == [i \in 1..Len(pairs) |-> pairs[i][1]]

TopicLimit == 10

extract_topics(text) ==
    LET tokens == simple_tokenize(text)
    IN IF tokens.raised
       THEN Logged(PyList(<<>>), <<"Topic extraction error: " \o tokens.exc>>)
       ELSE Logged(PyList(Keys(most_common(Counter(FilterTokens(tokens.val)), TopicLimit))), <<>>)

AnyIn(text, kws) == \E kw \in kws : Contains(text, kw)

\* the if/elif chain on the lowercased text
IntentOfLower(low) ==
    IF AnyIn(low, {"help", "how", "what", "explain", "tell me"}) THEN "help_request"
    ELSE IF AnyIn(low, {"like", "love", "prefer", "enjoy"}) THEN "preference_expression"
    ELSE IF AnyIn(low, {"thank", "thanks", "appreciate"}) THEN "gratitude"
    ELSE IF AnyIn(low, {"hello", "hi", "hey", "good morning"}) THEN "greeting"
    ELSE IF Contains(low, "?") THEN "question"
    ELSE "statement"

\* IntentOfLower with the gratitude rule tested before the preference rule
IntentOfRaisedGratitudeFirst(low) ==
    IF low.raised THEN low
    ELSE Ok(PyStr(
         IF AnyIn(low.val, {"help", "how", "what", "explain", "tell me"}) THEN "help_request"
         ELSE IF AnyIn(low.val, {"thank", "thanks", "appreciate"}) THEN "gratitude"
         ELSE IF AnyIn(low.val, {"like", "love", "prefer", "enjoy"}) THEN "preference_expression"
         ELSE IF AnyIn(low.val, {"hello", "hi", "hey", "good morning"}) THEN "greeting"
         ELSE IF Contains(low.val, "?") THEN "question"
         ELSE "statement"))

\* text.lower() is not inside a try block: its exception leaves the function
IntentOfRaised(low) ==
    IF low.raised THEN low ELSE Ok(PyStr(IntentOfLower(low.val)))

classify_intent(text) == IntentOfRaised(str_lower(text))

style_indicators ==
    [formal |-> {"please", "thank you", "could you", "would you", "sir", "madam", "kindly"},
     casual |-> {"hey", "hi", "cool", "awesome", "yeah", "nah", "gonna", "wanna", "sup"},
     technical |-> {"algorithm", "function", "variable", "database", "api", "framework", "code"},
     friendly |-> {"thanks", "appreciate", "great", "wonderful", "excited", "!", "amazing"}]

\* the scores of a lowercased text with total_words tokens
StyleScores(low, total_words) ==
    IF total_words = 0 THEN <<>>
    ELSE [style \in DOMAIN style_indicators |->
             Frac(Cardinality({kw \in style_indicators[style] : Contains(low, kw)}), total_words)]

\* text.lower() stands before the try block: its exception is not caught there
StyleOfLower(low) ==
    IF low.raised THEN low
    ELSE Logged(StyleScores(low.val, Len(Split(SubPunct(low.val)))), <<>>)

analyze_communication_style(text) == StyleOfLower(str_lower(text))

(* ------------------------------------------------------------------ *)
(* SimplePatternAnalyzer                                               *)
(* ------------------------------------------------------------------ *)
\* a dict: a function on its keys; {} is the function with no keys
EmptyDict == <<>>
Put(d, k, v) == [key \in (DOMAIN d) \cup {k} |-> IF key = k THEN v ELSE d[key]]
\* dict.get(k, default)
Get(d, k, default) == IF k \in DOMAIN d THEN d[k] ELSE default

HoursPerDay == 24
DaysPerWeek == 7

_analyze_time_patterns(interactions) ==
    IF \E i \in 1..Len(interactions) : interactions[i].timestamp.t # "datetime"
    THEN Raise("'NoneType' object has no attribute 'hour'")
    ELSE LET hours == [i \in 1..Len(interactions) |-> interactions[i].timestamp.v % HoursPerDay]
             days == [i \in 1..Len(interactions) |->
                         (interactions[i].timestamp.v \div HoursPerDay) % DaysPerWeek]
             hour_counts == Counter(hours)
             day_counts == Counter(days)
         IN Ok([most_active_hour |->
                    IF hour_counts # <<>> THEN PyInt(most_common(hour_counts, 1)[1][1]) ELSE PyNone,
                most_active_day |->
                    IF day_counts # <<>> THEN PyInt(most_common(day_counts, 1)[1][1]) ELSE PyNone,
                activity_distribution |-> hour_counts])

RECURSIVE InsertByTimestamp(_, _)
\* x put after every element whose timestamp is not later (a stable sort's step)
InsertByTimestamp(sorted, x) ==
    IF sorted = <<>> THEN <<x>>
    ELSE IF sorted[Len(sorted)].timestamp.v <= x.timestamp.v THEN Append(sorted, x)
    ELSE Append(InsertByTimestamp(SubSeq(sorted, 1, Len(sorted) - 1), x), sorted[Len(sorted)])

RECURSIVE SortByTimestamp(_, _, _)
SortByTimestamp(items, i, sorted) ==
    IF i > Len(items) THEN sorted
    ELSE SortByTimestamp(items, i + 1, InsertByTimestamp(sorted, items[i]))

RECURSIVE SumInts(_, _)
SumInts(s, i) == IF i > Len(s) THEN 0 ELSE s[i] + SumInts(s, i + 1)

RECURSIVE SumFracs(_, _)
SumFracs(s, i) == IF i > Len(s) THEN FracOfInt(0) ELSE FracAdd(s[i], SumFracs(s, i + 1))

MeanInts(s) == Frac(SumInts(s, 1), Len(s))
MeanFracs(s) == FracDivInt(SumFracs(s, 1), Len(s))

_analyze_frequency_patterns(interactions) ==
    IF Len(interactions) < 2
    THEN Ok([interaction_count |-> Len(interactions)])
    ELSE LET sorted_interactions == SortByTimestamp(interactions, 1, <<>>)
             n == Len(sorted_interactions)
             time_diffs == [i \in 1..(n - 1) |->
                 sorted_interactions[i + 1].timestamp.v - sorted_interactions[i].timestamp.v]
         IN Ok([average_time_between_interactions_hours |-> MeanInts(time_diffs),
                interaction_count |-> Len(interactions),
                date_range_days |->
                    (sorted_interactions[n].timestamp.v - sorted_interactions[1].timestamp.v)
                        \div HoursPerDay])

\* len(x) for a value that may have no length
HasLen(x) == x.t \in {"str", "list"}

TrendMinCount == 5

\* the first len//2 elements and the rest
FirstHalf(s) == SubSeq(s, 1, Len(s) \div 2)
SecondHalf(s) == SubSeq(s, (Len(s) \div 2) + 1, Len(s))

\* ContentTrend with the halves compared from 5 interactions on
ContentTrendFromFive(content_lengths) ==
    IF Len(content_lengths) >= TrendMinCount
    THEN LET first_avg == MeanInts(FirstHalf(content_lengths))
             second_avg == MeanInts(SecondHalf(content_lengths))
         IN IF FracLt(FracMul(first_avg, Frac(11, 10)), second_avg) THEN "increasing"
            ELSE IF FracLt(second_avg, FracMul(first_avg, Frac(9, 10))) THEN "decreasing"
            ELSE "stable"
    ELSE "stable"

\* second_avg > first_avg * 1.1 / second_avg < first_avg * 0.9
ContentTrend(content_lengths) ==
    IF Len(content_lengths) > TrendMinCount
    THEN LET first_avg == MeanInts(FirstHalf(content_lengths))
             second_avg == MeanInts(SecondHalf(content_lengths))
         IN IF FracLt(FracMul(first_avg, Frac(11, 10)), second_avg) THEN "increasing"
            ELSE IF FracLt(second_avg, FracMul(first_avg, Frac(9, 10))) THEN "decreasing"
            ELSE "stable"
    ELSE "stable"

_analyze_content_patterns(interactions) ==
    LET contents == [i \in 1..Len(interactions) |-> PyOr(interactions[i].content, PyStr(""))]
    IN IF \E i \in 1..Len(contents) : ~HasLen(contents[i])
       THEN LET bad == CHOOSE i \in 1..Len(contents) :
                           ~HasLen(contents[i]) /\ \A j \in 1..(i - 1) : HasLen(contents[j])
            IN Raise("object of type '" \o contents[bad].t \o "' has no len()")
       ELSE LET content_lengths == [i \in 1..Len(contents) |-> Len(contents[i].v)]
                interaction_types ==
                    [i \in 1..Len(interactions) |-> interactions[i].interaction_type]
            IN Ok([average_content_length |->
                       IF content_lengths # <<>> THEN MeanInts(content_lengths) ELSE FracOfInt(0),
                   content_length_trend |-> ContentTrend(content_lengths),
                   interaction_types |-> Counter(interaction_types)])

\* second_avg > first_avg + 0.1 / second_avg < first_avg - 0.1
SentimentTrend(sentiments) ==
    IF Len(sentiments) > TrendMinCount
    THEN LET first_avg == MeanFracs(FirstHalf(sentiments))
             second_avg == MeanFracs(SecondHalf(sentiments))
         IN IF FracLt(FracAdd(first_avg, Frac(1, 10)), second_avg) THEN "improving"
            ELSE IF FracLt(second_avg, FracAdd(first_avg, Frac(-1, 10))) THEN "declining"
            ELSE "stable"
    ELSE "stable"

_analyze_sentiment_trends(interactions) ==
    LET values == [i \in 1..Len(interactions) |-> PyOr(interactions[i].sentiment, PyInt(0))]
    IN IF values = <<>>
       THEN Ok([average_sentiment |-> FracOfInt(0), sentiment_trend |-> "stable"])
       ELSE IF \E i \in 1..Len(values) : ~IsNumber(values[i])
       THEN Raise("unsupported operand type(s) for +: 'int' and 'str'")
       ELSE LET sentiments == [i \in 1..Len(values) |-> NumOf(values[i])]
            IN Ok([average_sentiment |-> MeanFracs(sentiments),
                   sentiment_trend |-> SentimentTrend(sentiments)])

\* the characters of a string, as a list (list.extend of a str)
StrChars(s) == [i \in 1..Len(s) |-> CharAt(s, i)]

IsIterable(x) == x.t \in {"str", "list"}
Elements(x) == IF x.t = "str" THEN StrChars(x.v) ELSE x.v

RECURSIVE ExtendAll(_, _)
\* all_topics after the loop over interactions[i..]
ExtendAll(interactions, i) ==
    IF i > Len(interactions) THEN <<>>
    ELSE (IF Truthy(interactions[i].topics) THEN Elements(interactions[i].topics) ELSE <<>>)
             \o ExtendAll(interactions, i + 1)

TopTopicsLimit == 10

_analyze_topic_patterns(interactions) ==
    IF \E i \in 1..Len(interactions) :
           Truthy(interactions[i].topics) /\ ~IsIterable(interactions[i].topics)
    THEN Raise("'int' object is not iterable")
    ELSE LET all_topics == ExtendAll(interactions, 1)
             topic_counts == Counter(all_topics)
         IN Ok([top_topics |-> most_common(topic_counts, TopTopicsLimit),
                topic_diversity |-> Cardinality({all_topics[i] : i \in 1..Len(all_topics)})])

\* the body of the try block from the n-th pattern on: each result is stored as
\* soon as it is computed, the first exception ends the block
PatternNames ==
    <<"active_hours", "interaction_frequency", "content_patterns",
      "sentiment_trends", "topic_preferences">>

PatternCall(n, interactions) ==
    CASE n = 1 -> _analyze_time_patterns(interactions)
      [] n = 2 -> _analyze_frequency_patterns(interactions)
      [] n = 3 -> _analyze_content_patterns(interactions)
      [] n = 4 -> _analyze_sentiment_trends(interactions)
      [] n = 5 -> _analyze_topic_patterns(interactions)

RECURSIVE PatternsFromDropPartial(_, _, _)
\* PatternsFrom with an except clause that gives up the patterns computed so far
PatternsFromDropPartial(n, interactions, patterns) ==
    IF n > Len(PatternNames) THEN Logged(patterns, <<>>)
    ELSE IF PatternCall(n, interactions).raised
    THEN Logged(EmptyDict, <<"Pattern analysis error: " \o PatternCall(n, interactions).exc>>)
    ELSE PatternsFromDropPartial(n + 1, interactions,
                                 Put(patterns, PatternNames[n], PatternCall(n, interactions).val))

RECURSIVE PatternsFrom(_, _, _)
PatternsFrom(n, interactions, patterns) ==
    IF n > Len(PatternNames) THEN Logged(patterns, <<>>)
    ELSE LET r == PatternCall(n, interactions)
         IN IF r.raised
            THEN Logged(patterns, <<"Pattern analysis error: " \o r.exc>>)
            ELSE PatternsFrom(n + 1, interactions, Put(patterns, PatternNames[n], r.val))

analyze_interaction_patterns(interactions) ==
    IF interactions = <<>> THEN Logged(EmptyDict, <<>>)
    ELSE PatternsFrom(1, interactions, EmptyDict)

(* ------------------------------------------------------------------ *)
(* LearningEngine                                                      *)
(* ------------------------------------------------------------------ *)
\* interaction.sentiment = s, for the outcome s of analyze_sentiment
SetSentiment(st, s) ==
    [st EXCEPT !.interaction.sentiment = s.val, !.logs = st.logs \o s.logs]

\* interaction.topics = tp, for the outcome tp of extract_topics
SetTopics(st, tp) ==
    [st EXCEPT !.interaction.topics = tp.val, !.logs = st.logs \o tp.logs]

\* interaction.intent = it, for the outcome it of classify_intent, which may raise
SetIntent(st, it) ==
    IF it.raised
    THEN [raised |-> TRUE, exc |-> it.exc, interaction |-> st.interaction, logs |-> st.logs]
    ELSE [st EXCEPT !.interaction.intent = it.val]

FillSentiment(st, content) ==
    IF ~Truthy(st.interaction.sentiment) THEN SetSentiment(st, analyze_sentiment(content)) ELSE st

\* FillTopics written as an extension of the list the interaction has:
\* interaction.topics = (interaction.topics or []) + extract_topics(content)
FillTopicsExtend(st, content) ==
    IF ~Truthy(st.interaction.topics) THEN SetTopics(st, extract_topics(content))
    ELSE IF st.interaction.topics.t = "list"
    THEN [st EXCEPT !.interaction.topics =
             PyList(@.v \o extract_topics(content).val.v),
                    !.logs = @ \o extract_topics(content).logs]
    ELSE st

FillTopics(st, content) ==
    IF ~Truthy(st.interaction.topics) THEN SetTopics(st, extract_topics(content)) ELSE st

FillIntent(st, content) ==
    IF ~Truthy(st.interaction.intent) THEN SetIntent(st, classify_intent(content)) ELSE st

\* the try block of _analyze_single_interaction: the fields are assigned one
\* after the other, so an exception leaves the earlier assignments in place
SingleBody(interaction) ==
    FillIntent(
        FillTopics(
            FillSentiment([raised |-> FALSE, interaction |-> interaction, logs |-> <<>>],
                          PyOr(interaction.content, PyStr(""))),
            PyOr(interaction.content, PyStr(""))),
        PyOr(interaction.content, PyStr("")))

\* the except clause of _analyze_single_interaction
SingleExcept(b) ==
    [raised |-> FALSE, interaction |-> b.interaction,
     errors |-> <<"Interaction " \o ToString(b.interaction.id) \o ": " \o b.exc>>,
     logs |-> Append(b.logs, "Single interaction analysis error: " \o b.exc)]

\* SingleOutcome without the except clause: the exception leaves the function
SingleOutcomeUncaught(b) ==
    IF b.raised THEN [raised |-> TRUE, exc |-> b.exc, interaction |-> b.interaction]
    ELSE [raised |-> FALSE, interaction |-> b.interaction, errors |-> <<>>, logs |-> b.logs]

\* the function's outcome, given the outcome b of its try block
SingleOutcome(b) ==
    IF b.raised THEN SingleExcept(b)
    ELSE [raised |-> FALSE, interaction |-> b.interaction, errors |-> <<>>, logs |-> b.logs]

_analyze_single_interaction(interaction) == SingleOutcome(SingleBody(interaction))

MEDIUM == "medium"
HIGH == "high"

DetailedAbove == 100
BriefBelow == 50
TopTopicsForFacts == 5
MinTopicCount == 3
HighAbove == 5

TimeFacts(user_id, patterns) ==
    IF "active_hours" \in DOMAIN patterns
       /\ patterns["active_hours"].most_active_hour # PyNone
    THEN <<[user_id |-> user_id,
            category |-> "behavior",
            fact_type |-> "time_preference",
            fact_key |-> "most_active_hour",
            fact_value |-> ToString(patterns["active_hours"].most_active_hour.v),
            confidence_level |-> MEDIUM,
            learning_method |-> "pattern_analysis"]>>
    ELSE <<>>

\* LengthFacts with the test for "detailed" written avg_length >= 100
LengthFactsDetailedFrom(user_id, patterns) ==
    IF "content_patterns" \in DOMAIN patterns
    THEN LET avg_length == patterns["content_patterns"].average_content_length
         IN IF FracLt(FracOfInt(0), avg_length)
            THEN <<[user_id |-> user_id,
                    category |-> "communication",
                    fact_type |-> "message_length_preference",
                    fact_key |-> "preferred_response_length",
                    fact_value |->
                        IF FracLe(FracOfInt(DetailedAbove), avg_length) THEN "detailed"
                        ELSE IF FracLt(avg_length, FracOfInt(BriefBelow)) THEN "brief"
                        ELSE "moderate",
                    confidence_level |-> MEDIUM,
                    learning_method |-> "pattern_analysis"]>>
            ELSE <<>>
    ELSE <<>>

LengthFacts(user_id, patterns) ==
    IF "content_patterns" \in DOMAIN patterns
    THEN LET avg_length == patterns["content_patterns"].average_content_length
         IN IF FracLt(FracOfInt(0), avg_length)
            THEN <<[user_id |-> user_id,
                    category |-> "communication",
                    fact_type |-> "message_length_preference",
                    fact_key |-> "preferred_response_length",
                    fact_value |->
                        IF FracLt(FracOfInt(DetailedAbove), avg_length) THEN "detailed"
                        ELSE IF FracLt(avg_length, FracOfInt(BriefBelow)) THEN "brief"
                        ELSE "moderate",
                    confidence_level |-> MEDIUM,
                    learning_method |-> "pattern_analysis"]>>
            ELSE <<>>
    ELSE <<>>

TopicFact(user_id, topic, count) ==
    [user_id |-> user_id,
     category |-> "interests",
     fact_type |-> "topic_interest",
     fact_key |-> "interest_" \o topic,
     fact_value |-> "Shows strong interest in " \o topic,
     confidence_level |-> IF count > HighAbove THEN HIGH ELSE MEDIUM,
     evidence_count |-> count,
     learning_method |-> "topic_analysis"]

\* TopicsForFacts without the slice [:5]
TopicsForFactsAll(top_topics) == top_topics

\* list(top_topics.items())[:5]
TopicsForFacts(top_topics) ==
    SubSeq(top_topics, 1, IF Len(top_topics) < TopTopicsForFacts
                          THEN Len(top_topics) ELSE TopTopicsForFacts)

RECURSIVE TopicFactsFromAboveMin(_, _, _)
\* TopicFactsFrom with the threshold test written count > 3
TopicFactsFromAboveMin(user_id, pairs, i) ==
    IF i > Len(pairs) THEN <<>>
    ELSE (IF pairs[i][2] > MinTopicCount
          THEN <<TopicFact(user_id, pairs[i][1], pairs[i][2])>> ELSE <<>>)
             \o TopicFactsFromAboveMin(user_id, pairs, i + 1)

RECURSIVE TopicFactsFrom(_, _, _)
TopicFactsFrom(user_id, pairs, i) ==
    IF i > Len(pairs) THEN <<>>
    ELSE (IF pairs[i][2] >= MinTopicCount
          THEN <<TopicFact(user_id, pairs[i][1], pairs[i][2])>> ELSE <<>>)
             \o TopicFactsFrom(user_id, pairs, i + 1)

TopicFacts(user_id, patterns) ==
    IF "topic_preferences" \in DOMAIN patterns
       /\ patterns["topic_preferences"].top_topics # <<>>
    THEN TopicFactsFrom(user_id, TopicsForFacts(patterns["topic_preferences"].top_topics), 1)
    ELSE <<>>

_generate_facts_from_patterns(user_id, patterns) ==
    Logged(TimeFacts(user_id, patterns) \o LengthFacts(user_id, patterns)
               \o TopicFacts(user_id, patterns), <<>>)

\* two digits of a number below 100
TwoDigits(k) == IF k < 10 THEN "0" \o ToString(k) ELSE ToString(k)

\* f"{q:.2f}": rounded to the nearest hundredth, a tie to the even one
Fmt2(q) ==
    LET a == Abs(q.n) * 100
        k == a \div q.d
        rem == a % q.d
        cents == IF 2 * rem > q.d \/ (2 * rem = q.d /\ k % 2 = 1) THEN k + 1 ELSE k
    IN (IF q.n < 0 THEN "-" ELSE "") \o ToString(cents \div 100) \o "." \o TwoDigits(cents % 100)

EngagementAbove == 10
RecentCount == 10
HelpRequestsAbove == 3

\* EngagementInsights with the test written interaction_count >= 10
EngagementInsightsFromTen(patterns) ==
    LET freq == Get(patterns, "interaction_frequency", [interaction_count |-> 0])
    IN IF freq.interaction_count >= EngagementAbove
       THEN <<[category |-> "engagement",
               insight |-> "User is highly engaged with frequent interactions",
               confidence |-> Frac(8, 10),
               evidence |-> <<"Had " \o ToString(freq.interaction_count) \o " interactions">>]>>
       ELSE <<>>

EngagementInsights(patterns) ==
    LET freq == Get(patterns, "interaction_frequency", [interaction_count |-> 0])
    IN IF freq.interaction_count > EngagementAbove
       THEN <<[category |-> "engagement",
               insight |-> "User is highly engaged with frequent interactions",
               confidence |-> Frac(8, 10),
               evidence |-> <<"Had " \o ToString(freq.interaction_count) \o " interactions">>]>>
       ELSE <<>>

\* Recent with the whole list taken whatever its length
RecentAll(interactions) == interactions

\* interactions[-10:] if len(interactions) > 10 else interactions
Recent(interactions) ==
    IF Len(interactions) > RecentCount
    THEN SubSeq(interactions, Len(interactions) - RecentCount + 1, Len(interactions))
    ELSE interactions

CommunicationInsights(recent_interactions) ==
    IF recent_interactions = <<>> THEN <<>>
    ELSE LET avg_sentiment ==
                 MeanFracs([i \in 1..Len(recent_interactions) |->
                               NumOf(PyOr(recent_interactions[i].sentiment, PyInt(0)))])
         IN IF FracLt(Frac(1, 10), avg_sentiment)
            THEN <<[category |-> "communication",
                    insight |-> "User generally communicates with positive sentiment",
                    confidence |-> Frac(7, 10),
                    evidence |-> <<"Average sentiment: " \o Fmt2(avg_sentiment)>>]>>
            ELSE <<>>

\* LearningInsights with the test written len(help_requests) >= 3
LearningInsightsFromThree(interactions) ==
    LET help_requests == SelectSeq(interactions, LAMBDA i : i.intent = PyStr("help_request"))
    IN IF Len(help_requests) >= HelpRequestsAbove
       THEN <<[category |-> "learning",
               insight |-> "User prefers learning through asking questions",
               confidence |-> Frac(6, 10),
               evidence |-> <<"Made " \o ToString(Len(help_requests)) \o " help requests">>]>>
       ELSE <<>>

LearningInsights(interactions) ==
    LET help_requests == SelectSeq(interactions, LAMBDA i : i.intent = PyStr("help_request"))
    IN IF Len(help_requests) > HelpRequestsAbove
       THEN <<[category |-> "learning",
               insight |-> "User prefers learning through asking questions",
               confidence |-> Frac(6, 10),
               evidence |-> <<"Made " \o ToString(Len(help_requests)) \o " help requests">>]>>
       ELSE <<>>

_generate_insights(user_id, interactions, patterns) ==
    LET engagement == EngagementInsights(patterns)
        recent_interactions == Recent(interactions)
    IN IF \E i \in 1..Len(recent_interactions) :
              ~IsNumber(PyOr(recent_interactions[i].sentiment, PyInt(0)))
       THEN Logged(engagement,
                   <<"Insight generation error: unsupported operand type(s) for +: 'int' and 'str'">>)
       ELSE Logged(engagement \o CommunicationInsights(recent_interactions)
                       \o LearningInsights(interactions), <<>>)

(* ------------------------------------------------------------------ *)
(* State                                                               *)
(* ------------------------------------------------------------------ *)
VARIABLES
    user_id,             \* the user_id argument
    interactions,        \* the interaction objects of the list, mutated in place
    given,               \* the interactions as they were when the call began
    pc,                  \* where process_user_interactions stands
    idx,                 \* the for loop's position in the list
    errors,              \* stats.errors
    patterns,            \* the pattern dict
    new_facts,
    insights,
    processing_time_ms,  \* stats.processing_time_ms
    outcome,             \* what the call gave its caller: a LearningResult or an exception
    log,                 \* the messages passed to logger.error, in order
    ran,                 \* the steps of the call that have run to their end
    text,                \* the argument of a direct call of a text analysis
    call,                \* the direct call made and what it gave
    store,               \* the rows of the learned_facts table, as the session sees them
    pending,             \* the facts added to the session and not yet committed
    last_upsert,         \* the last committed upsert: its arguments and the rows before it
    n_upserts,           \* the number of committed upserts made so far
    fact_idx,            \* how many of the result's new facts the handler has upserted
    calls,               \* the calls of process_user_interactions that run concurrently
    stats,               \* the ProcessingStats objects of those calls: their errors
    rate_limit_store,    \* the arrival times kept for each client id
    clock,               \* time.time(), in whole seconds
    responses,           \* the requests answered so far: client, endpoint, time, status
    db,                  \* the committed rows of user_interactions and learned_facts
    sessions,            \* the requests under way: their handler, session and locals
    answered             \* the requests of the handlers answered so far

store_vars == <<store, pending, last_upsert, n_upserts, fact_idx>>
pair_vars == <<calls, stats>>
limit_vars == <<rate_limit_store, clock, responses>>
request_vars == <<db, sessions, answered>>
web_vars == <<limit_vars, request_vars>>

vars == <<user_id, interactions, given, pc, idx, errors, patterns, new_facts, insights,
          processing_time_ms, outcome, log, ran, text, call, store_vars, pair_vars,
          web_vars>>

NoUpsert == [done |-> FALSE]

NoOutcome == [raised |-> FALSE, pending |-> TRUE]
NoCall == [fn |-> "none"]

(* ------------------------------------------------------------------ *)
(* Inputs                                                              *)
(* ------------------------------------------------------------------ *)
UserInteraction(content, timestamp, sentiment, topics, intent, processed) ==
    [t |-> "UserInteraction", id |-> 0, interaction_type |-> "message",
     content |-> content, timestamp |-> timestamp, sentiment |-> sentiment,
     topics |-> topics, intent |-> intent, processed |-> PyBool(processed)]

IsObject(x) == x.t = "UserInteraction"

\* the interactions the lists are made of: one per case of the pipeline
Catalogue ==
    [plain |->
        UserInteraction(PyStr("I LOVE jazz!"), PyDateTime(9), PyNone, PyNone, PyNone, FALSE),
     preset_falsy |->
        UserInteraction(PyStr("love"), PyDateTime(33), PyFloat(FracOfInt(0)), PyList(<<>>),
                        PyStr(""), FALSE),
     preset |->
        UserInteraction(PyStr("I hate this"), PyDateTime(58), PyFloat(Frac(1, 2)),
                        PyList(<<"music", "music", "music">>), PyStr("greeting"), FALSE),
     int_content |->
        UserInteraction(PyInt(5), PyDateTime(9), PyNone, PyNone, PyNone, FALSE),
     six_topics |->
        UserInteraction(PyNone, PyDateTime(80), PyNone,
                        PyList(<<"jazz", "rock", "blues", "folk", "soul", "funk">>), PyNone, TRUE),
     no_timestamp |->
        UserInteraction(PyStr(""), PyNone, PyNone, PyNone, PyNone, FALSE),
     int_topics |->
        UserInteraction(PyStr("how?"), PyDateTime(10), PyNone, PyInt(5), PyNone, FALSE),
     not_an_object |-> PyNone]

\* the list made of the named catalogue entries, ids given by position
MakeList(names) ==
    [i \in 1..Len(names) |->
        IF IsObject(Catalogue[names[i]])
        THEN [Catalogue[names[i]] EXCEPT !.id = i]
        ELSE Catalogue[names[i]]]

SeqsUpTo(S, n) == UNION {[1..k -> S] : k \in 0..n}

Inputs == {MakeList(names) : names \in SeqsUpTo(DOMAIN Catalogue, MaxLen)}

TheUser == 1

\* the words the input texts are made of
Lexemes == {"I", "LOVE", "hate", "the", "go", "jazz-rock!"}

\* the words the texts with an intent are made of
IntentLexemes == {"What", "like", "Thanks", "hey", "ok?", "this"}

\* a text with more than ten distinct topics, one of them twice
LongText ==
    "alpha bravo charlie delta echo foxtrot golf hotel india juliet kilo lima kilo"

RECURSIVE JoinFrom(_, _)
JoinFrom(words, i) ==
    IF i > Len(words) THEN ""
    ELSE IF i = Len(words) THEN words[i]
    ELSE words[i] \o " " \o JoinFrom(words, i + 1)
\* " ".join(words)
Join(words) == JoinFrom(words, 1)

\* the values handed to a text analysis: texts, and values that are no text
TextInputs ==
    {PyStr(Join(words)) : words \in SeqsUpTo(Lexemes, MaxWords)}
        \cup {PyStr(Join(words)) : words \in SeqsUpTo(IntentLexemes, MaxWords)}
        \cup {PyStr(LongText), PyStr("Hi\tthere,\nJAZZ_1 is good"), PyInt(5), PyNone}

\* a new interaction as the caller records it: only its content is set
NewInteraction(content) ==
    [UserInteraction(content, PyDateTime(9), PyNone, PyNone, PyNone, FALSE) EXCEPT !.id = 1]

RECURSIVE Fill(_)
\* a word of n letters
Fill(n) ==
    IF n = 0 THEN "" ELSE IF n = 1 THEN "x" ELSE Fill(n \div 2) \o Fill(n - (n \div 2))

\* the contents the batches are made of: a request for help, contents of 49,
\* 50, 100 and 101 characters, and no content
BatchContents ==
    [help |-> PyStr("how?"),
     c49 |-> PyStr(Fill(49)),
     c50 |-> PyStr("love " \o Fill(45)),
     c100 |-> PyStr(Fill(100)),
     c101 |-> PyStr(Fill(101)),
     none |-> PyNone]

\* the hour of the i-th of n interactions, listed oldest or newest first
BatchHour(i, n, order) == IF order = "oldest_first" THEN i ELSE n + 1 - i

\* n new interactions, the first k with content a, the others with content b
BatchList(n, k, a, b, order) ==
    [i \in 1..n |->
        [UserInteraction(BatchContents[IF i <= k THEN a ELSE b],
                         PyDateTime(BatchHour(i, n, order)), PyNone, PyNone, PyNone, FALSE)
            EXCEPT !.id = i]]

BatchInputs ==
    UNION {{BatchList(n, k, a, b, order) :
               k \in 0..n, a \in DOMAIN BatchContents, b \in DOMAIN BatchContents,
               order \in {"oldest_first", "newest_first"}} : n \in 0..MaxBatch}

\* the interactions the mixed lists are made of: two new ones, and two already
\* marked processed, one of them with no sentiment
MixedKinds ==
    [help |-> UserInteraction(PyStr("how?"), PyNone, PyNone, PyNone, PyNone, FALSE),
     love |-> UserInteraction(PyStr("love it"), PyNone, PyNone, PyNone, PyNone, FALSE),
     done_help |->
        UserInteraction(PyStr("how?"), PyNone, PyNone, PyNone, PyStr("help_request"), TRUE),
     done_topics |->
        UserInteraction(PyStr("love music"), PyNone, PyFloat(Frac(1, 2)),
                        PyList(<<"jazz", "rock", "blues", "folk", "soul", "funk">>),
                        PyStr("statement"), TRUE)]

\* n interactions, oldest first, the first k of kind a and the others of kind b
MixedList(n, k, a, b) ==
    [i \in 1..n |->
        [MixedKinds[IF i <= k THEN a ELSE b] EXCEPT !.id = i, !.timestamp = PyDateTime(i)]]

MixedInputs ==
    UNION {{MixedList(n, k, a, b) :
               k \in 0..n, a \in DOMAIN MixedKinds, b \in DOMAIN MixedKinds} :
           n \in 0..MaxMixed}

\* the state before a call, of one caller
InitCall(list, txt) ==
    /\ user_id = TheUser
    /\ interactions = list
    /\ given = list
    /\ pc = "idle"
    /\ idx = 0
    /\ errors = <<>>
    /\ patterns = EmptyDict
    /\ new_facts = <<>>
    /\ insights = <<>>
    /\ processing_time_ms = 0
    /\ outcome = NoOutcome
    /\ log = <<>>
    /\ ran = {}
    /\ text = txt
    /\ call = NoCall

\* an empty table and an empty session
InitNoStore ==
    /\ store = <<>>
    /\ pending = <<>>
    /\ last_upsert = NoUpsert
    /\ n_upserts = 0
    /\ fact_idx = 0

\* the client ids f"{client_ip}:{api_key}" of two callers
Clients == {"10.0.0.1:anonymous", "10.0.0.2:anonymous"}

\* no concurrent calls
InitNoPair ==
    /\ calls = <<>>
    /\ stats = <<>>

\* the rate limiter as the application starts
InitLimiter ==
    /\ rate_limit_store = [c \in Clients |-> <<>>]
    /\ clock = 0
    /\ responses = <<>>

\* the requests that may be under way at once
RequestIds == {1, 2}

\* no request under way
NoRequest == [pc |-> "none"]

\* empty tables and no request
InitNoRequests ==
    /\ db = [interactions |-> <<>>, facts |-> <<>>]
    /\ sessions = [r \in RequestIds |-> NoRequest]
    /\ answered = <<>>

\* the application as it starts: no request has come yet
InitWeb == InitLimiter /\ InitNoRequests

InitWith(list, txt) == InitCall(list, txt) /\ InitNoStore /\ InitNoPair /\ InitWeb

\* process_user_interactions on the lists made of the catalogue
Init == \E list \in Inputs : InitWith(list, PyNone)

\* process_user_interactions on the batches
InitBatch == \E list \in BatchInputs : InitWith(list, PyNone)

\* process_user_interactions on the mixed lists
InitMixed == \E list \in MixedInputs : InitWith(list, PyNone)

\* a text analysed directly, or as the content of one new interaction
InitText == \E txt \in TextInputs : InitWith(<<NewInteraction(txt)>>, txt)

(* ------------------------------------------------------------------ *)
(* process_user_interactions, step by step                             *)
(* ------------------------------------------------------------------ *)
\* OuterExcept without stats.errors.append: the exception is only logged
OuterExceptNoRecord(exc) ==
    [pc |-> "return", errors |-> errors,
     log |-> Append(log, "Learning engine error: " \o exc), outcome |-> outcome]

\* OuterExcept with the try block's except clause left out: the exception
\* reaches the caller
OuterExceptPropagates(exc) ==
    [pc |-> "done", errors |-> errors, log |-> log, outcome |-> Raise(exc)]

\* the except clause of process_user_interactions: the exception is logged,
\* added to stats.errors, and the function goes on to its return statement
OuterExcept(exc) ==
    [pc |-> "return", errors |-> Append(errors, exc),
     log |-> Append(log, "Learning engine error: " \o exc), outcome |-> outcome]

\* the call begins: start_time, stats and the three lists are set up
Begin ==
    /\ pc = "idle"
    /\ call = NoCall
    /\ pc' = IF interactions = <<>> THEN "patterns" ELSE "analyze"
    /\ idx' = 1
    /\ errors' = <<>>
    /\ new_facts' = <<>>
    /\ insights' = <<>>
    /\ processing_time_ms' = 0
    /\ ran' = IF interactions = <<>> THEN {"analyze"} ELSE {}
    /\ UNCHANGED <<user_id, interactions, given, patterns, outcome, log, text, call>>
    /\ UNCHANGED <<store_vars, pair_vars, web_vars>>

\* the loop's control after one more element
AfterElement == IF idx = Len(interactions) THEN "patterns" ELSE "analyze"
RanAfterElement == IF idx = Len(interactions) THEN ran \cup {"analyze"} ELSE ran

\* an exception reaches the except clause of process_user_interactions
TakeOuterExcept(h) ==
    /\ pc' = h.pc
    /\ errors' = h.errors
    /\ log' = h.log
    /\ outcome' = h.outcome
    /\ UNCHANGED ran

\* the loop goes on after _analyze_single_interaction gave r
TakeSingle(r) ==
    /\ interactions' = [interactions EXCEPT ![idx] = r.interaction]
    /\ IF r.raised
       THEN TakeOuterExcept(OuterExcept(r.exc)) /\ UNCHANGED idx
       ELSE /\ errors' = errors \o r.errors
            /\ log' = log \o r.logs
            /\ idx' = idx + 1
            /\ pc' = AfterElement
            /\ ran' = RanAfterElement
            /\ UNCHANGED outcome

\* AnalyzeElement without the test of interaction.processed
AnalyzeElementProcessedToo(interaction) ==
    IF ~IsObject(interaction)
    THEN /\ TakeOuterExcept(OuterExcept("'NoneType' object has no attribute 'processed'"))
         /\ UNCHANGED <<interactions, idx>>
    ELSE TakeSingle(_analyze_single_interaction(interaction))

\* the loop's body for one element of the list
AnalyzeElement(interaction) ==
    IF ~IsObject(interaction)
    THEN /\ TakeOuterExcept(OuterExcept("'NoneType' object has no attribute 'processed'"))
         /\ UNCHANGED <<interactions, idx>>
    ELSE IF Truthy(interaction.processed)
    THEN /\ idx' = idx + 1
         /\ pc' = AfterElement
         /\ ran' = RanAfterElement
         /\ UNCHANGED <<interactions, errors, log, outcome>>
    ELSE TakeSingle(_analyze_single_interaction(interaction))

\* one turn of the for loop over the interactions
AnalyzeNext ==
    /\ pc = "analyze"
    /\ idx <= Len(interactions)
    /\ AnalyzeElement(interactions[idx])
    /\ UNCHANGED <<user_id, given, patterns, new_facts, insights, processing_time_ms, text, call>>
    /\ UNCHANGED <<store_vars, pair_vars, web_vars>>

TakePatterns(r) ==
    IF r.raised
    THEN TakeOuterExcept(OuterExcept(r.exc)) /\ UNCHANGED patterns
    ELSE /\ patterns' = r.val
         /\ log' = log \o r.logs
         /\ pc' = "facts"
         /\ ran' = ran \cup {"patterns"}
         /\ UNCHANGED <<errors, outcome>>

\* AnalyzePatterns over the interactions not marked processed only
AnalyzePatternsUnprocessed ==
    /\ pc = "patterns"
    /\ TakePatterns(analyze_interaction_patterns(
                        SelectSeq(interactions, LAMBDA i : ~Truthy(i.processed))))
    /\ UNCHANGED <<user_id, interactions, given, idx, new_facts, insights,
                   processing_time_ms, text, call>>
    /\ UNCHANGED <<store_vars, pair_vars, web_vars>>

\* patterns = self.pattern_analyzer.analyze_interaction_patterns(interactions)
AnalyzePatterns ==
    /\ pc = "patterns"
    /\ TakePatterns(analyze_interaction_patterns(interactions))
    /\ UNCHANGED <<user_id, interactions, given, idx, new_facts, insights,
                   processing_time_ms, text, call>>
    /\ UNCHANGED <<store_vars, pair_vars, web_vars>>

TakeFacts(r) ==
    IF r.raised
    THEN TakeOuterExcept(OuterExcept(r.exc)) /\ UNCHANGED new_facts
    ELSE /\ new_facts' = new_facts \o r.val
         /\ log' = log \o r.logs
         /\ pc' = "insights"
         /\ ran' = ran \cup {"facts"}
         /\ UNCHANGED <<errors, outcome>>

\* new_facts.extend(self._generate_facts_from_patterns(user_id, patterns))
GenerateFacts ==
    /\ pc = "facts"
    /\ TakeFacts(_generate_facts_from_patterns(user_id, patterns))
    /\ UNCHANGED <<user_id, interactions, given, idx, patterns, insights,
                   processing_time_ms, text, call>>
    /\ UNCHANGED <<store_vars, pair_vars, web_vars>>

TakeInsights(r) ==
    IF r.raised
    THEN TakeOuterExcept(OuterExcept(r.exc)) /\ UNCHANGED insights
    ELSE /\ insights' = r.val
         /\ log' = log \o r.logs
         /\ pc' = "stats"
         /\ ran' = ran \cup {"insights"}
         /\ UNCHANGED <<errors, outcome>>

\* insights = self._generate_insights(user_id, interactions, patterns)
GenerateInsights ==
    /\ pc = "insights"
    /\ TakeInsights(_generate_insights(user_id, interactions, patterns))
    /\ UNCHANGED <<user_id, interactions, given, idx, patterns, new_facts,
                   processing_time_ms, text, call>>
    /\ UNCHANGED <<store_vars, pair_vars, web_vars>>

\* ElapsedMs with the two readings of the clock subtracted the wrong way round
ElapsedMsSwapped(half_ms) == -(half_ms \div 2)

\* int(milliseconds) of an elapsed time given in half milliseconds
ElapsedMs(half_ms) == half_ms \div 2

\* the end of the try block: the elapsed time, truncated to whole milliseconds
TakeTime ==
    /\ pc = "stats"
    /\ \E half_ms \in 0..MaxElapsedHalfMs : processing_time_ms' = ElapsedMs(half_ms)
    /\ pc' = "return"
    /\ UNCHANGED <<user_id, interactions, given, idx, errors, patterns, new_facts, insights,
                   outcome, log, ran, text, call>>
    /\ UNCHANGED <<store_vars, pair_vars, web_vars>>

LearningResult ==
    [user_id |-> user_id,
     new_facts |-> new_facts,
     updated_facts |-> <<>>,
     insights |-> insights,
     processing_time_ms |-> processing_time_ms,
     errors |-> errors]

\* return LearningResult(...)
Return ==
    /\ pc = "return"
    /\ outcome' = Ok(LearningResult)
    /\ pc' = "done"
    /\ UNCHANGED <<user_id, interactions, given, idx, errors, patterns, new_facts, insights,
                   processing_time_ms, log, ran, text, call>>
    /\ UNCHANGED <<store_vars, pair_vars, web_vars>>

(* ------------------------------------------------------------------ *)
(* The text analyses called directly                                   *)
(* ------------------------------------------------------------------ *)
Called(fn, out) ==
    /\ pc = "idle"
    /\ call = NoCall
    /\ call' = [fn |-> fn, out |-> out]
    /\ UNCHANGED <<user_id, interactions, given, pc, idx, errors, patterns, new_facts, insights,
                   processing_time_ms, outcome, log, ran, text>>
    /\ UNCHANGED <<store_vars, pair_vars, web_vars>>

CallSentiment == Called("analyze_sentiment", analyze_sentiment(text))
CallTopics == Called("extract_topics", extract_topics(text))
CallIntent == Called("classify_intent", classify_intent(text))
CallStyle == Called("analyze_communication_style", analyze_communication_style(text))

Next ==
    \/ Begin
    \/ AnalyzeNext
    \/ AnalyzePatterns
    \/ GenerateFacts
    \/ GenerateInsights
    \/ TakeTime
    \/ Return

Spec == Init /\ [][Next]_vars

NextText ==
    \/ Next
    \/ CallSentiment
    \/ CallTopics
    \/ CallIntent
    \/ CallStyle

SpecText == InitText /\ [][NextText]_vars

SpecBatch == InitBatch /\ [][Next]_vars

SpecMixed == InitMixed /\ [][Next]_vars

(* ------------------------------------------------------------------ *)
(* The learned_facts table and create_or_update_fact                   *)
(* ------------------------------------------------------------------ *)
\* the positional parameters of create_or_update_fact
FactArgs == {"user_id", "category", "fact_type", "fact_key", "fact_value"}

\* **kwargs: the keyword arguments of a call create_or_update_fact(**fact_data)
\* beyond the positional parameters
kwargs(fact_data) == [k \in (DOMAIN fact_data) \ FactArgs |-> fact_data[k]]

NoKwargs == kwargs([user_id |-> TheUser])

\* kwargs.get(key, default)
KwGet(kw, key, default) == IF key \in DOMAIN kw THEN kw[key] ELSE default

\* Column(Integer, default=1) of LearnedFact.evidence_count
DefaultEvidence == 1
\* kwargs.get('evidence_count', 1)
EvidenceStep == 1

\* QueryFirst with the filter on the category left out
QueryFirstAnyCategory(rows, uid, category, fact_key) ==
    LET found == {i \in 1..Len(rows) :
                     rows[i].user_id = uid /\ rows[i].fact_key = fact_key}
    IN IF found = {} THEN {0} ELSE found

\* what query(LearnedFact).filter(...).first() may return: the position of a
\* row with that user_id, category and fact_key (the query has no ORDER BY, so
\* any such row), or 0 for None. Rows added to the session and not yet flushed
\* are not looked at: the session is made with autoflush=False.
QueryFirst(rows, uid, category, fact_key) ==
    LET found == {i \in 1..Len(rows) :
                     /\ rows[i].user_id = uid
                     /\ rows[i].category = category
                     /\ rows[i].fact_key = fact_key}
    IN IF found = {} THEN {0} ELSE found

\* LearnedFact(user_id=..., ..., **kwargs): the object holds what it was given
LearnedFact(uid, category, fact_type, fact_key, fact_value, kw) ==
    [user_id |-> uid, category |-> category, fact_type |-> fact_type,
     fact_key |-> fact_key, fact_value |-> fact_value] @@ kw

\* create_or_update_fact in a session, when the query returned row k (0: None)
create_or_update_fact(session, k, uid, category, fact_type, fact_key, fact_value, kw) ==
    IF k # 0
    THEN [session EXCEPT
             !.rows[k].fact_value = fact_value,
             !.rows[k].evidence_count = @ + KwGet(kw, "evidence_count", EvidenceStep)]
    ELSE [session EXCEPT
             !.pending = Append(@, LearnedFact(uid, category, fact_type, fact_key,
                                               fact_value, kw))]

\* InsertedRow with 0 as the default of evidence_count
InsertedRowNoEvidence(fact) ==
    fact @@ [confidence_level |-> MEDIUM, evidence_count |-> 0]

\* the row INSERTed for a new object: the column defaults fill what it lacks
InsertedRow(fact) ==
    fact @@ [confidence_level |-> MEDIUM, evidence_count |-> DefaultEvidence]

\* session.commit() at the end of get_session: the new objects are inserted
commit(session) ==
    [rows |-> session.rows \o
                 [i \in 1..Len(session.pending) |-> InsertedRow(session.pending[i])],
     pending |-> <<>>]

\* the facts upserted directly: keys that differ in the user, in the category
\* and in the fact key alone, two of them keys of facts process emits
UpsertKeys ==
    {[user_id |-> TheUser, category |-> "interests", fact_type |-> "topic_interest",
      fact_key |-> "interest_love"],
     [user_id |-> TheUser + 1, category |-> "interests", fact_type |-> "topic_interest",
      fact_key |-> "interest_love"],
     [user_id |-> TheUser, category |-> "behavior", fact_type |-> "topic_interest",
      fact_key |-> "interest_love"],
     [user_id |-> TheUser, category |-> "behavior", fact_type |-> "time_preference",
      fact_key |-> "most_active_hour"]}

\* the value upserted, without and with a supplied evidence count
UpsertArgs ==
    {[fact_value |-> "old", kw |-> NoKwargs],
     [fact_value |-> "new", kw |-> kwargs([evidence_count |-> 3])]}

\* one call of create_or_update_fact in a session of its own, committed
UpsertCommitted(key, value, kw) ==
    /\ pc = "idle"
    /\ call = NoCall
    /\ n_upserts < MaxUpserts
    /\ \E k \in QueryFirst(store, key.user_id, key.category, key.fact_key) :
          store' = commit(create_or_update_fact(
                              [rows |-> store, pending |-> <<>>], k, key.user_id,
                              key.category, key.fact_type, key.fact_key, value, kw)).rows
    /\ last_upsert' = [done |-> TRUE, key |-> key, fact_value |-> value, kw |-> kw,
                       before |-> store]
    /\ n_upserts' = n_upserts + 1
    /\ UNCHANGED <<pending, fact_idx, pair_vars, web_vars>>
    /\ UNCHANGED <<user_id, interactions, given, pc, idx, errors, patterns, new_facts,
                   insights, processing_time_ms, outcome, log, ran, text, call>>

Upsert ==
    \E key \in UpsertKeys, args \in UpsertArgs :
        UpsertCommitted(key, args.fact_value, args.kw)

\* the session of the learning handler after create_or_update_fact(**fact_data)
StoredFact(fact_data, k) ==
    create_or_update_fact([rows |-> store, pending |-> pending], k, fact_data.user_id,
                          fact_data.category, fact_data.fact_type, fact_data.fact_key,
                          fact_data.fact_value, kwargs(fact_data))

TakeSession(session) ==
    /\ store' = session.rows
    /\ pending' = session.pending

\* for fact_data in result.new_facts: fact_repo.create_or_update_fact(**fact_data)
StoreFact ==
    /\ pc = "done"
    /\ ~outcome.raised
    /\ fact_idx < Len(outcome.val.new_facts)
    /\ LET fact_data == outcome.val.new_facts[fact_idx + 1]
       IN \E k \in QueryFirst(store, fact_data.user_id, fact_data.category,
                               fact_data.fact_key) :
              TakeSession(StoredFact(fact_data, k))
    /\ fact_idx' = fact_idx + 1
    /\ last_upsert' = NoUpsert
    /\ UNCHANGED <<n_upserts, pair_vars, web_vars>>
    /\ UNCHANGED <<user_id, interactions, given, pc, idx, errors, patterns, new_facts,
                   insights, processing_time_ms, outcome, log, ran, text, call>>

\* the handler's session ends: get_session commits
CommitFacts ==
    /\ pc = "done"
    /\ ~outcome.raised
    /\ fact_idx = Len(outcome.val.new_facts)
    /\ TakeSession(commit([rows |-> store, pending |-> pending]))
    /\ pc' = "stored"
    /\ last_upsert' = NoUpsert
    /\ UNCHANGED <<n_upserts, fact_idx, pair_vars, web_vars>>
    /\ UNCHANGED <<user_id, interactions, given, idx, errors, patterns, new_facts,
                   insights, processing_time_ms, outcome, log, ran, text, call>>

\* the unprocessed interactions the learning handler finds
StoreLists ==
    {BatchList(3, 3, "c50", "c50", "oldest_first"),
     BatchList(4, 1, "help", "c50", "newest_first"),
     BatchList(1, 1, "help", "help", "oldest_first")}

InitStore == \E list \in StoreLists : InitWith(list, PyNone)

NextStore ==
    \/ Next
    \/ Upsert
    \/ StoreFact
    \/ CommitFacts

SpecStore == InitStore /\ [][NextStore]_vars

(* ------------------------------------------------------------------ *)
(* Two calls of process_user_interactions on one LearningEngine        *)
(* ------------------------------------------------------------------ *)
\* the two callers of the one engine, learning_engine = LearningEngine()
CallIds == {1, 2}

\* StatsOf with one ProcessingStats object kept by the engine for all calls
StatsOfEngine(id) == 1

\* the ProcessingStats object of a call: stats = ProcessingStats() makes a new
\* one in each call
StatsOf(id) == id

\* the locals of a call that has not begun, given the objects at objs; met
\* records whether the other call was under way at one of its steps
NewCall(objs) ==
    [pc |-> "idle", idx |-> 0, objs |-> objs, patterns |-> EmptyDict,
     new_facts |-> <<>>, insights |-> <<>>, result |-> NoOutcome, met |-> FALSE]

\* the list a call was given: the objects its references lead to
ListOf(c, heap) == [i \in 1..Len(c.objs) |-> heap[c.objs[i]]]

\* a call after one step: its locals, the objects, its stats.errors, and what
\* the step passed to the logger
Stepped(c, heap, errs, logs) == [call |-> c, heap |-> heap, errors |-> errs, logs |-> logs]

\* the except clause of process_user_interactions
CallExcept(c, heap, errs, exc) ==
    Stepped([c EXCEPT !.pc = "return"], heap, Append(errs, exc),
            <<"Learning engine error: " \o exc>>)

\* the loop went on after _analyze_single_interaction gave r for the object h
CallSingle(c, heap, errs, h, r) ==
    IF r.raised
    THEN CallExcept(c, [heap EXCEPT ![h] = r.interaction], errs, r.exc)
    ELSE Stepped([c EXCEPT !.idx = @ + 1,
                           !.pc = IF c.idx = Len(c.objs) THEN "patterns" ELSE "analyze"],
                 [heap EXCEPT ![h] = r.interaction], errs \o r.errors, r.logs)

\* one turn of the for loop
CallAnalyze(c, heap, errs, h) ==
    IF ~IsObject(heap[h])
    THEN CallExcept(c, heap, errs, "'NoneType' object has no attribute 'processed'")
    ELSE IF Truthy(heap[h].processed)
    THEN Stepped([c EXCEPT !.idx = @ + 1,
                           !.pc = IF c.idx = Len(c.objs) THEN "patterns" ELSE "analyze"],
                 heap, errs, <<>>)
    ELSE CallSingle(c, heap, errs, h, _analyze_single_interaction(heap[h]))

\* a step of the try block gave r, kept in the local named field
CallTook(c, heap, errs, r, field, next) ==
    IF r.raised
    THEN CallExcept(c, heap, errs, r.exc)
    ELSE Stepped([c EXCEPT ![field] = IF field = "new_facts" THEN @ \o r.val ELSE r.val,
                           !.pc = next],
                 heap, errs, r.logs)

\* one step of a call of process_user_interactions; the reading of the clock
\* is left out
CallStep(c, heap, errs) ==
    CASE c.pc = "idle" ->
            Stepped([c EXCEPT !.idx = 1,
                              !.pc = IF c.objs = <<>> THEN "patterns" ELSE "analyze"],
                    heap, <<>>, <<>>)
      [] c.pc = "analyze" -> CallAnalyze(c, heap, errs, c.objs[c.idx])
      [] c.pc = "patterns" ->
            CallTook(c, heap, errs, analyze_interaction_patterns(ListOf(c, heap)),
                     "patterns", "facts")
      [] c.pc = "facts" ->
            CallTook(c, heap, errs, _generate_facts_from_patterns(TheUser, c.patterns),
                     "new_facts", "insights")
      [] c.pc = "insights" ->
            CallTook(c, heap, errs,
                     _generate_insights(TheUser, ListOf(c, heap), c.patterns),
                     "insights", "return")
      [] c.pc = "return" ->
            Stepped([c EXCEPT !.pc = "done",
                              !.result = Ok([new_facts |-> c.new_facts,
                                             insights |-> c.insights, errors |-> errs])],
                    heap, errs, <<>>)

RECURSIVE RunAlone(_)
\* a call run from s to its return with no other call about
RunAlone(s) ==
    IF s.call.pc = "done" THEN s ELSE RunAlone(CallStep(s.call, s.heap, s.errors))

\* the step r of the call id takes effect on the shared objects and logger
TakePair(id, r) ==
    /\ calls' = [calls EXCEPT ![id] =
                    [r.call EXCEPT !.met =
                        @ \/ \E o \in CallIds \ {id} : calls[o].pc \notin {"idle", "done"}]]
    /\ interactions' = r.heap
    /\ stats' = [stats EXCEPT ![StatsOf(id)] = r.errors]
    /\ log' = log \o r.logs

\* the call id takes its next step, whatever the other call is doing
PairStep(id) ==
    /\ calls[id].pc # "done"
    /\ TakePair(id, CallStep(calls[id], interactions, stats[StatsOf(id)]))
    /\ UNCHANGED <<user_id, given, pc, idx, errors, patterns, new_facts, insights,
                   processing_time_ms, outcome, ran, text, call, store_vars, web_vars>>

\* the interactions the two lists are made of
PairKinds == {"plain", "int_content", "preset_falsy"}

\* the objects, the first n1 of them given to call 1 and the others, in
\* reverse order, to call 2
InitPairWith(names, n1) ==
    /\ InitCall(MakeList(names), PyNone)
    /\ InitNoStore
    /\ InitWeb
    /\ calls = [id \in CallIds |->
                   NewCall(IF id = 1 THEN [i \in 1..n1 |-> i]
                           ELSE [i \in 1..(Len(names) - n1) |-> Len(names) + 1 - i])]
    /\ stats = [id \in CallIds |-> <<>>]

InitPair ==
    \E n1 \in 1..MaxPairLen, n2 \in 1..MaxPairLen :
        \E names \in [1..(n1 + n2) -> PairKinds] : InitPairWith(names, n1)

NextPair == \E id \in CallIds : PairStep(id)

SpecPair == InitPair /\ [][NextPair]_vars

\* process called twice on one list: both calls are given the same objects
InitTwice ==
    \E list \in Inputs :
        /\ InitCall(list, PyNone)
        /\ InitNoStore
        /\ InitWeb
        /\ calls = [id \in CallIds |-> NewCall([i \in 1..Len(list) |-> i])]
        /\ stats = [id \in CallIds |-> <<>>]

\* the second call is made once the first has returned
NextTwice ==
    \/ PairStep(1)
    \/ calls[1].pc = "done" /\ PairStep(2)

SpecTwice == InitTwice /\ [][NextTwice]_vars

(* ------------------------------------------------------------------ *)
(* The rate limiter of the web application                             *)
(* ------------------------------------------------------------------ *)
RATE_LIMIT_WINDOW == 300
RATE_LIMIT_MAX_REQUESTS == 100

\* the decorations @rate_limit(max_requests=..., window=...) of two of the
\* endpoints, their 50 and 5 requests per 300 seconds scaled down
Decorations ==
    [webhook_chat_message |-> [max_requests |-> 2, window |-> 3],
     stream_learning_process |-> [max_requests |-> 1, window |-> 3]]

Endpoints == DOMAIN Decorations

\* limit = max_requests or RATE_LIMIT_MAX_REQUESTS
LimitOf(endpoint) ==
    IF Decorations[endpoint].max_requests # 0 THEN Decorations[endpoint].max_requests
    ELSE RATE_LIMIT_MAX_REQUESTS

\* time_window = window or RATE_LIMIT_WINDOW
WindowOf(endpoint) ==
    IF Decorations[endpoint].window # 0 THEN Decorations[endpoint].window
    ELSE RATE_LIMIT_WINDOW

\* [req_time for req_time in client_requests if current_time - req_time < time_window]
CleanOld(client_requests, current_time, time_window) ==
    SelectSeq(client_requests, LAMBDA req_time : current_time - req_time < time_window)

\* the answer to a request and the list kept for its client afterwards
Decided(endpoint, current_time, client_requests) ==
    IF Len(client_requests) >= LimitOf(endpoint)
    THEN [status |-> 429, kept |-> client_requests]
    ELSE [status |-> 200, kept |-> Append(client_requests, current_time)]

TakeDecision(client, endpoint, d) ==
    /\ rate_limit_store' = [rate_limit_store EXCEPT ![client] = d.kept]
    /\ responses' = Append(responses, [client |-> client, endpoint |-> endpoint,
                                       time |-> clock, status |-> d.status])

\* decorated_function: a request of a client for an endpoint goes through the
\* decorator of that endpoint
Request(client, endpoint) ==
    /\ Len(responses) < MaxRequests
    /\ TakeDecision(client, endpoint,
                    Decided(endpoint, clock,
                            CleanOld(rate_limit_store[client], clock, WindowOf(endpoint))))
    /\ UNCHANGED <<user_id, interactions, given, pc, idx, errors, patterns, new_facts,
                   insights, processing_time_ms, outcome, log, ran, text, call, clock,
                   store_vars, pair_vars, request_vars>>

\* a second goes by
Tick ==
    /\ clock < MaxClock
    /\ clock' = clock + 1
    /\ UNCHANGED <<user_id, interactions, given, pc, idx, errors, patterns, new_facts,
                   insights, processing_time_ms, outcome, log, ran, text, call,
                   rate_limit_store, responses, store_vars, pair_vars, request_vars>>

InitLimit == InitWith(<<>>, PyNone)

NextLimit ==
    \/ Tick
    \/ \E client \in Clients, endpoint \in Endpoints : Request(client, endpoint)

SpecLimit == InitLimit /\ [][NextLimit]_vars

(* ------------------------------------------------------------------ *)
(* The handlers create_interaction and trigger_learning                *)
(* ------------------------------------------------------------------ *)
\* what the handlers leave alone
RequestFrame ==
    UNCHANGED <<user_id, interactions, given, pc, idx, errors, patterns, new_facts,
                insights, processing_time_ms, outcome, log, ran, text, call,
                store_vars, pair_vars, limit_vars>>

\* the rows of user_interactions found when the application starts: up to
\* MaxStored interactions not yet processed, ids given by position
StoredLists ==
    UNION {{MixedList(n, k, "help", "love") : k \in 0..n} : n \in 0..MaxStored}

\* data['content'] of the create-interaction requests
NewContents == {"how?", "love it"}

\* UserInteraction(user_id=..., interaction_type=..., content=...): until it is
\* flushed the object has no id (0 stands for None), and the column defaults
\* of timestamp and processed are not applied
NewUserInteraction(content) ==
    [UserInteraction(PyStr(content), PyNone, PyNone, PyNone, PyNone, FALSE)
        EXCEPT !.processed = PyNone]

\* query(UserInteraction).filter(UserInteraction.processed == False).all():
\* the ids of the rows found
get_unprocessed_interactions(rows) ==
    SelectSeq([i \in 1..Len(rows) |-> i], LAMBDA i : rows[i].processed = PyBool(FALSE))

\* a session just opened by a handler that holds the objects objs, of ids ids
\* and known as names
Opened(handler, objs, ids, names) ==
    [pc |-> "run", handler |-> handler, objs |-> objs, ids |-> ids, names |-> names,
     new_facts |-> <<>>, fact_idx |-> 0, updates |-> <<>>, pending |-> <<>>]

\* the answer to the request of a session
Answer(s, status, failed) ==
    [handler |-> s.handler, status |-> status, failed |-> failed,
     analysed |-> {s.names[k] : k \in {j \in 1..Len(s.objs) : s.pc # "run"}},
     flagged |-> {s.names[k] : k \in {j \in 1..Len(s.objs) :
                                         s.objs[j].processed = PyBool(TRUE)}},
     new_facts |-> s.new_facts]

\* the requests begun so far
Begun == Len(answered) + Cardinality({r \in RequestIds : sessions[r].pc # "none"})

\* create_interaction up to the call of the learning engine: the user is
\* found and the interaction is added to the session
BeginCreate(r, content) ==
    /\ sessions[r].pc = "none"
    /\ Begun < MaxAnswered
    /\ sessions' = [sessions EXCEPT ![r] =
                       Opened("create_interaction", <<NewUserInteraction(content)>>, <<0>>,
                              <<100 + 10 * Begun + r>>)]
    /\ UNCHANGED <<db, answered>>
    /\ RequestFrame

\* trigger_learning up to the call of the learning engine: the user is found
\* and the unprocessed interactions are loaded
LoadedUnprocessed(r, unprocessed) ==
    IF unprocessed = <<>>
    THEN /\ answered' = Append(answered,
                               [handler |-> "trigger_learning", status |-> 200,
                                failed |-> "none", analysed |-> {}, flagged |-> {},
                                new_facts |-> <<>>])
         /\ UNCHANGED sessions
    ELSE /\ sessions' = [sessions EXCEPT ![r] =
                            Opened("trigger_learning",
                                   [k \in 1..Len(unprocessed) |->
                                       db.interactions[unprocessed[k]]],
                                   unprocessed, unprocessed)]
         /\ UNCHANGED answered

BeginLearning(r) ==
    /\ sessions[r].pc = "none"
    /\ Begun < MaxAnswered
    /\ LoadedUnprocessed(r, get_unprocessed_interactions(db.interactions))
    /\ UNCHANGED db
    /\ RequestFrame

\* the call of the learning engine has returned: the objects of the session
\* are as the call left them
Ran(r, out) ==
    sessions' = [sessions EXCEPT
                    ![r].objs = out.heap,
                    ![r].new_facts = out.call.result.val.new_facts,
                    ![r].pc = IF out.call.result.val.new_facts = <<>> THEN "mark"
                              ELSE "store"]

\* learning_engine.process_user_interactions(user_id, ...) on the objects of
\* the session
RunLearning(r) ==
    /\ sessions[r].pc = "run"
    /\ Ran(r, RunAlone(Stepped(NewCall([k \in 1..Len(sessions[r].objs) |-> k]),
                               sessions[r].objs, <<>>, <<>>)))
    /\ UNCHANGED <<db, answered>>
    /\ RequestFrame

\* the session s after create_or_update_fact gave the session after, the
\* query having returned row k (0: None)
Upserted(s, k, after) ==
    [s EXCEPT !.pending = after.pending,
              !.updates = IF k = 0 THEN @ ELSE (k :> after.rows[k]) @@ @,
              !.fact_idx = @ + 1,
              !.pc = IF s.fact_idx + 1 = Len(s.new_facts) THEN "mark" ELSE "store"]

\* fact_repo.create_or_update_fact(**fact_data) for the next of the new
\* facts: the query sees the committed rows
StoreNext(r) ==
    /\ sessions[r].pc = "store"
    /\ LET s == sessions[r]
           fact_data == s.new_facts[s.fact_idx + 1]
       IN \E k \in QueryFirst(db.facts, fact_data.user_id, fact_data.category,
                               fact_data.fact_key) :
              sessions' = [sessions EXCEPT ![r] =
                  Upserted(s, k,
                           create_or_update_fact(
                               [rows |-> db.facts, pending |-> s.pending], k,
                               fact_data.user_id, fact_data.category, fact_data.fact_type,
                               fact_data.fact_key, fact_data.fact_value,
                               kwargs(fact_data)))]
    /\ UNCHANGED <<db, answered>>
    /\ RequestFrame

\* get_session when an exception leaves the with block: session.rollback(),
\* and the handler answers 500
Rollback(r, failed) ==
    /\ answered' = Append(answered, Answer(sessions[r], 500, failed))
    /\ sessions' = [sessions EXCEPT ![r] = NoRequest]
    /\ UNCHANGED db

\* the database raises while a fact is stored
StorageError(r) ==
    /\ sessions[r].pc = "store"
    /\ Rollback(r, "storage")
    /\ RequestFrame

\* mark_interaction_processed(interaction.id) for the objects of the session:
\* the row of that id is looked up and, if there is one, flagged; no row has
\* the id None
MarkProcessed(r) ==
    /\ sessions[r].pc = "mark"
    /\ sessions' = [sessions EXCEPT
           ![r].objs = [k \in 1..Len(@) |->
                           IF sessions[r].ids[k] \in 1..Len(db.interactions)
                           THEN [@[k] EXCEPT !.processed = PyBool(TRUE)]
                           ELSE @[k]],
           ![r].pc = "respond"]
    /\ UNCHANGED <<db, answered>>
    /\ RequestFrame

\* the row INSERTed for a new interaction
InsertedInteraction(obj, id) ==
    [obj EXCEPT !.id = id,
                !.timestamp = IF @ = PyNone THEN PyDateTime(clock) ELSE @,
                !.processed = IF @ = PyNone THEN PyBool(FALSE) ELSE @]

\* session.commit() of a handler: the loaded rows are updated, the new objects
\* inserted
Committed(s) ==
    LET loaded == {k \in 1..Len(s.objs) : s.ids[k] # 0}
        added == SelectSeq(s.objs, LAMBDA o : o.id = 0)
    IN [interactions |->
            [i \in 1..Len(db.interactions) |->
                IF \E k \in loaded : s.ids[k] = i
                THEN s.objs[CHOOSE k \in loaded : s.ids[k] = i]
                ELSE db.interactions[i]]
            \o [j \in 1..Len(added) |->
                   InsertedInteraction(added[j], Len(db.interactions) + j)],
        facts |->
            commit([rows |-> [i \in 1..Len(db.facts) |->
                                 IF i \in DOMAIN s.updates THEN s.updates[i]
                                 ELSE db.facts[i]],
                    pending |-> s.pending]).rows]

\* the response is built and the with block is left: create_interaction reads
\* interaction.timestamp.isoformat(), which raises on None
Finish(r) ==
    /\ sessions[r].pc = "respond"
    /\ IF sessions[r].handler = "create_interaction"
          /\ sessions[r].objs[1].timestamp = PyNone
       THEN Rollback(r, "response")
       ELSE /\ db' = Committed(sessions[r])
            /\ answered' = Append(answered,
                   Answer(sessions[r],
                          IF sessions[r].handler = "create_interaction" THEN 201 ELSE 200,
                          "none"))
            /\ sessions' = [sessions EXCEPT ![r] = NoRequest]
    /\ RequestFrame

InitStored ==
    \E list \in StoredLists :
        /\ InitCall(<<>>, PyNone)
        /\ InitNoStore
        /\ InitNoPair
        /\ InitLimiter
        /\ db = [interactions |-> list, facts |-> <<>>]
        /\ sessions = [r \in RequestIds |-> NoRequest]
        /\ answered = <<>>

NoneUnderWay == \A r \in RequestIds : sessions[r].pc = "none"

\* the requests come one after the other
NextRequests ==
    \E r \in RequestIds :
        \/ NoneUnderWay /\ \E content \in NewContents : BeginCreate(r, content)
        \/ NoneUnderWay /\ BeginLearning(r)
        \/ RunLearning(r)
        \/ StoreNext(r)
        \/ StorageError(r)
        \/ MarkProcessed(r)
        \/ Finish(r)

SpecRequests == InitStored /\ [][NextRequests]_vars

\* learning requests that may run at the same time, each in its own session
NextConcurrent ==
    \E r \in RequestIds :
        \/ BeginLearning(r)
        \/ RunLearning(r)
        \/ StoreNext(r)
        \/ MarkProcessed(r)
        \/ Finish(r)

SpecConcurrent == InitStored /\ [][NextConcurrent]_vars

(* ------------------------------------------------------------------ *)
(* Properties                                                          *)
(* ------------------------------------------------------------------ *)
HasPrefix(str, prefix) ==
    Len(str) >= Len(prefix) /\ SubSeq(str, 1, Len(prefix)) = prefix

CountPrefix(strs, prefix) ==
    Cardinality({i \in 1..Len(strs) : HasPrefix(strs[i], prefix)})

AllObjects(list) == \A i \in 1..Len(list) : IsObject(list[i])

AllSteps == {"analyze", "patterns", "facts", "insights"}

\* the result the caller holds once the call has returned
Returned == pc = "done" /\ ~outcome.raised

\* what the caller holds is never an exception; the loop always has an element
\* to take; once the call has returned, what it returned is the LearningResult,
\* whose errors are strings, one at least when the list held an element that
\* is no interaction
ResultNotException ==
    /\ ~outcome.raised
    /\ pc = "analyze" => idx \in 1..Len(interactions)
    /\ pc = "done" =>
          /\ outcome = Ok(LearningResult)
          /\ \A i \in 1..Len(outcome.val.errors) : outcome.val.errors[i] \in STRING
          /\ ~AllObjects(given) => outcome.val.errors # <<>>

\* the number of steps the call has yet to take, at most
StepsLeft ==
    CASE pc = "idle" -> Len(interactions) + 6
      [] pc = "analyze" -> Len(interactions) - idx + 6
      [] pc = "patterns" -> 5
      [] pc = "facts" -> 4
      [] pc = "insights" -> 3
      [] pc = "stats" -> 2
      [] pc = "return" -> 1
      [] pc = "done" -> 0

\* C1: process always returns a LearningResult and never raises to its caller,
\* whatever the list holds (empty, missing or malformed content, an element
\* that is no interaction); failures show only as strings in the result's
\* errors.  What the call gives its caller is never an exception, and every
\* step brings the call nearer to its return statement.
C1_AlwaysReturnsResult ==
    [](ResultNotException) /\ [][StepsLeft' < StepsLeft]_vars

\* a call has returned a result for a list with malformed content and an
\* element that is no interaction: two failures, two error strings
C1_Witness ==
    /\ Returned
    /\ \E i \in 1..Len(given) : ~IsObject(given[i])
    /\ \E i \in 1..Len(given) : IsObject(given[i]) /\ given[i].content.t = "int"
    /\ Len(outcome.val.errors) = 2

\* C2: for an empty interaction list process returns new_facts = [],
\* insights = [], errors = [] and processing_time_ms >= 0.
C2_EmptyListResult ==
    (pc = "done" /\ given = <<>>) =>
        /\ ~outcome.raised
        /\ outcome.val.new_facts = <<>>
        /\ outcome.val.insights = <<>>
        /\ outcome.val.errors = <<>>
        /\ outcome.val.processing_time_ms >= 0

\* the call on the empty list has returned, after a millisecond
C2_Witness ==
    Returned /\ given = <<>> /\ outcome.val.processing_time_ms = 1

\* the messages logged by the except clauses of the four steps
StepFailures ==
    CountPrefix(log, "Single interaction analysis error: ")
        + CountPrefix(log, "Pattern analysis error: ")
        + CountPrefix(log, "Fact generation error: ")
        + CountPrefix(log, "Insight generation error: ")

\* C3 as stated: every exception raised inside a step is caught, a string for
\* it is appended to the result's errors, and the later steps still run.
C3_EveryStepFailureInErrors ==
    (pc = "done" /\ AllObjects(given)) =>
        /\ ~outcome.raised
        /\ ran = AllSteps
        /\ Len(outcome.val.errors) = StepFailures

\* C3 amended: every exception raised inside a step is caught and logged and
\* the later steps still run; a string is appended to errors only for a
\* failed per-interaction analysis, a failure inside the pattern analysis (or
\* the fact or insight derivation) leaves errors as it was.
C3_StepsIsolated ==
    (pc = "done" /\ AllObjects(given)) =>
        /\ ~outcome.raised
        /\ ran = AllSteps
        /\ Len(outcome.val.errors) = CountPrefix(log, "Single interaction analysis error: ")
        /\ \A i \in 1..Len(outcome.val.errors) : HasPrefix(outcome.val.errors[i], "Interaction ")

\* the pattern analysis failed on its last pattern, no analysis of an
\* interaction did: the facts were still derived and errors is empty
C3_Witness ==
    /\ Returned
    /\ AllObjects(given)
    /\ CountPrefix(log, "Pattern analysis error: ") = 1
    /\ outcome.val.errors = <<>>
    /\ outcome.val.new_facts # <<>>
    /\ ran = AllSteps

EnrichedFields == {"sentiment", "topics", "intent"}

\* C4: process fills in sentiment, topics and intent only where the field is
\* unset: a field that held a value before the call (any value of its domain,
\* 0.0 and [] included) holds the same value afterwards.
C4_SetFieldsKept ==
    \A i \in 1..Len(given) :
        IsObject(given[i]) =>
            \A f \in EnrichedFields :
                given[i][f] # PyNone => interactions[i][f] = given[i][f]

\* the occurrences <<i, j>> of topics in the interactions' topic lists
Occurrences(list) ==
    UNION {{<<i, j>> : j \in 1..Len(list[i].topics.v)} :
              i \in {k \in 1..Len(list) : IsObject(list[k]) /\ list[k].topics.t = "list"}}
TopicAt(list, o) == list[o[1]].topics.v[o[2]]
TopicsOf(list) == {TopicAt(list, o) : o \in Occurrences(list)}
TotalCount(list, topic) == Cardinality({o \in Occurrences(list) : TopicAt(list, o) = topic})
Earlier(o1, o2) == o1[1] < o2[1] \/ (o1[1] = o2[1] /\ o1[2] < o2[2])
FirstOccurrence(list, topic) ==
    CHOOSE o \in Occurrences(list) :
        /\ TopicAt(list, o) = topic
        /\ \A o2 \in Occurrences(list) : TopicAt(list, o2) = topic => ~Earlier(o2, o)
\* topic a comes before topic b in frequency order, ties by first occurrence
Before(list, a, b) ==
    \/ TotalCount(list, a) > TotalCount(list, b)
    \/ /\ TotalCount(list, a) = TotalCount(list, b)
       /\ Earlier(FirstOccurrence(list, a), FirstOccurrence(list, b))
Rank(list, topic) == Cardinality({other \in TopicsOf(list) : Before(list, other, topic)}) + 1

HasTopicFact(facts, topic, count) ==
    \E k \in 1..Len(facts) :
        /\ facts[k].fact_type = "topic_interest"
        /\ facts[k].fact_key = "interest_" \o topic
        /\ facts[k].evidence_count = count
        /\ facts[k].confidence_level = IF count > 5 THEN "high" ELSE "medium"

\* interactions whose fields hold values of their types, or none
WellFormed(list) ==
    \A i \in 1..Len(list) :
        /\ IsObject(list[i])
        /\ list[i].timestamp.t = "datetime"
        /\ list[i].content.t \in {"None", "str"}
        /\ list[i].sentiment.t \in {"None", "float", "int"}
        /\ list[i].topics.t \in {"None", "list"}

\* C5 as stated: for every interaction list, every topic occurring at least 3
\* times in the topic lists gets a topic_interest fact with that count as
\* evidence_count and confidence high above 5, else medium.
C5_EveryFrequentTopic ==
    pc = "done" =>
        \A topic \in TopicsOf(interactions) :
            TotalCount(interactions, topic) >= 3 =>
                HasTopicFact(outcome.val.new_facts, topic, TotalCount(interactions, topic))

\* C5 amended: for every list of well-formed interactions, every topic that
\* occurs at least 3 times and is among the five most frequent topics (ties by
\* first occurrence) gets a topic_interest fact with that count as
\* evidence_count and confidence high above 5, else medium.
C5_FrequentTopFiveTopic ==
    (pc = "done" /\ WellFormed(given)) =>
        /\ ~outcome.raised
        /\ \A topic \in TopicsOf(interactions) :
              (TotalCount(interactions, topic) >= 3 /\ Rank(interactions, topic) <= 5) =>
                  HasTopicFact(outcome.val.new_facts, topic, TotalCount(interactions, topic))

\* a topic seen exactly 3 times has its fact while a sixth topic, also seen 3
\* times, has none
C5_Witness ==
    /\ Returned
    /\ WellFormed(given)
    /\ \E topic \in TopicsOf(interactions) :
          /\ TotalCount(interactions, topic) = 3
          /\ Rank(interactions, topic) = 5
          /\ HasTopicFact(outcome.val.new_facts, topic, 3)
    /\ \E topic \in TopicsOf(interactions) :
          /\ TotalCount(interactions, topic) = 3
          /\ Rank(interactions, topic) = 6
          /\ ~HasTopicFact(outcome.val.new_facts, topic, 3)

\* the analysis of the interaction with this id failed: errors names it
FailedAnalysis(id) ==
    \E k \in 1..Len(errors) : HasPrefix(errors[k], "Interaction " \o ToString(id) \o ":")

\* C6: when the analysis of one interaction fails, the failure is a string in
\* errors, the interaction's sentiment, topics and intent are left as they
\* were, and the other unprocessed interactions are still analysed.
C6_FailedInteractionUntouched ==
    \A i \in 1..Len(given) :
        (IsObject(given[i]) /\ FailedAnalysis(given[i].id)) =>
            \A f \in EnrichedFields : interactions[i][f] = given[i][f]

\* C7: every sub-analysis of the text analyzer (sentiment, topics, intent,
\* communication style) catches the errors raised on its input and returns
\* its safe default: a direct call never gives its caller an exception.
C7_SubAnalysesNeverRaise ==
    call # NoCall => ~call.out.raised

\* the order in which the patterns are computed
C8Order ==
    <<"active_hours", "interaction_frequency", "content_patterns",
      "sentiment_trends", "topic_preferences">>

\* the first pattern whose computation fails on the list, 6 when none does
FirstFailing(list) ==
    IF \E i \in 1..Len(list) : list[i].timestamp.t # "datetime" THEN 1
    ELSE IF \E i \in 1..Len(list) :
                Truthy(list[i].content) /\ list[i].content.t \notin {"str", "list"} THEN 3
    ELSE IF \E i \in 1..Len(list) :
                Truthy(list[i].sentiment) /\ list[i].sentiment.t \notin {"float", "int", "bool"}
         THEN 4
    ELSE IF \E i \in 1..Len(list) :
                Truthy(list[i].topics) /\ list[i].topics.t \notin {"str", "list"} THEN 5
    ELSE 6

\* C8: analyze_interaction_patterns returns an empty mapping for an empty
\* list, never raises, and when one pattern computation fails the mapping
\* holds the results of every pattern computed before the failure (in the
\* order active_hours, interaction_frequency, content_patterns,
\* sentiment_trends, topic_preferences) and of none after it.
C8_PartialPatterns ==
    /\ (pc \in {"facts", "insights", "stats"} \/ (pc \in {"return", "done"} /\ AllObjects(given)))
           => "patterns" \in ran
    /\ "patterns" \in ran =>
           IF interactions = <<>>
           THEN patterns = EmptyDict
           ELSE DOMAIN patterns = {C8Order[n] : n \in 1..(FirstFailing(interactions) - 1)}

\* the content patterns failed: the mapping holds the two patterns before them
C8_Witness ==
    /\ "patterns" \in ran
    /\ FirstFailing(interactions) = 3
    /\ DOMAIN patterns = {"active_hours", "interaction_frequency"}

InUnitInterval(q) == FracLe(FracOfInt(-1), q) /\ FracLe(q, FracOfInt(1))

NoLexiconToken(tokens) ==
    \A i \in 1..Len(tokens) : tokens[i] \notin (positive_words \cup negative_words)

\* C9: the sentiment score of any text lies in [-1, 1] and is 0.0 for the
\* empty string and for a text with no token of the positive or the negative
\* lexicon; every sentiment process writes into an interaction lies in [-1, 1].
C9_SentimentInRange ==
    /\ call.fn = "analyze_sentiment" =>
          /\ ~call.out.raised
          /\ call.out.val.t = "float"
          /\ InUnitInterval(call.out.val.v)
          /\ text = PyStr("") => call.out.val.v = FracOfInt(0)
          /\ (text.t = "str" /\ NoLexiconToken(simple_tokenize(text).val))
                 => call.out.val.v = FracOfInt(0)
    /\ \A i \in 1..Len(interactions) :
          (IsObject(interactions[i]) /\ interactions[i].sentiment # given[i].sentiment) =>
              /\ interactions[i].sentiment.t = "float"
              /\ InUnitInterval(interactions[i].sentiment.v)

\* a text whose raw score, 2, is clamped to 1, written into the interaction
C9_Witness ==
    /\ text = PyStr("LOVE")
    /\ pc = "done"
    /\ given[1].sentiment = PyNone
    /\ interactions[1].sentiment = PyFloat(FracOfInt(1))

Frequency(tokens, word) == Cardinality({i \in 1..Len(tokens) : tokens[i] = word})
FirstIndex(tokens, word) ==
    CHOOSE i \in 1..Len(tokens) : tokens[i] = word /\ \A j \in 1..(i - 1) : tokens[j] # word

TopicsInOrder(topics, tokens) ==
    /\ Len(topics) <= 10
    /\ \A i \in 1..Len(topics) :
          /\ topics[i] \notin stop_words
          /\ Len(topics[i]) > 2
          /\ \E k \in 1..Len(tokens) : tokens[k] = topics[i]
    /\ \A i, j \in 1..Len(topics) :
          i < j =>
              /\ topics[i] # topics[j]
              /\ \/ Frequency(tokens, topics[i]) > Frequency(tokens, topics[j])
                 \/ /\ Frequency(tokens, topics[i]) = Frequency(tokens, topics[j])
                    /\ FirstIndex(tokens, topics[i]) < FirstIndex(tokens, topics[j])

\* C10: topic extraction never returns a stop word or a token of length <= 2,
\* returns at most 10 entries, without duplicates, by descending frequency,
\* equal frequencies in the order of first occurrence in the text.
C10_TopicsWellFormed ==
    (call.fn = "extract_topics" /\ text.t = "str") =>
        /\ ~call.out.raised
        /\ call.out.val.t = "list"
        /\ TopicsInOrder(call.out.val.v, simple_tokenize(text).val)

\* a text with twelve topics: ten are returned, the one seen twice first
C10_Witness ==
    /\ call.fn = "extract_topics"
    /\ text = PyStr(LongText)
    /\ Len(call.out.val.v) = 10
    /\ call.out.val.v[1] = "kilo"
    /\ call.out.val.v[2] = "alpha"

\* the rules of the intent classification, in the order they are tried
IntentRules ==
    <<[label |-> "help_request", keywords |-> {"help", "how", "what", "explain", "tell me"}],
      [label |-> "preference_expression", keywords |-> {"like", "love", "prefer", "enjoy"}],
      [label |-> "gratitude", keywords |-> {"thank", "thanks", "appreciate"}],
      [label |-> "greeting", keywords |-> {"hello", "hi", "hey", "good morning"}],
      [label |-> "question", keywords |-> {"?"}]>>

IsSubstring(part, whole) ==
    \E i \in 1..(Len(whole) - Len(part) + 1) : SubSeq(whole, i, i + Len(part) - 1) = part

RuleMatches(r, low) == \E kw \in IntentRules[r].keywords : IsSubstring(kw, low)

\* the label of the first rule that matches, "statement" when none does
FirstRuleLabel(low) ==
    IF \E r \in 1..Len(IntentRules) : RuleMatches(r, low)
    THEN IntentRules[CHOOSE r \in 1..Len(IntentRules) :
                        /\ RuleMatches(r, low)
                        /\ \A q \in 1..(r - 1) : ~RuleMatches(q, low)].label
    ELSE "statement"

\* C11: intent classification tries its rules in the order help_request,
\* preference_expression, gratitude, greeting, question, statement and returns
\* the label of the first rule with a keyword contained in the lowercased
\* text; a text matching several rules gets the earliest, a text with no
\* keyword and no "?" (the empty string too) gets "statement".
C11_FirstMatchingRule ==
    (call.fn = "classify_intent" /\ text.t = "str") =>
        /\ ~call.out.raised
        /\ call.out.val = PyStr(FirstRuleLabel(Lower(text.v)))
        /\ text.v = "" => call.out.val = PyStr("statement")

\* a text matching the gratitude, the preference and the greeting rule, in
\* that order in the text, is a preference_expression
C11_Witness ==
    /\ call.fn = "classify_intent"
    /\ text = PyStr("Thanks like hey")
    /\ RuleMatches(2, Lower(text.v)) /\ RuleMatches(3, Lower(text.v)) /\ RuleMatches(4, Lower(text.v))
    /\ call.out.val = PyStr("preference_expression")

\* len(content), a missing content counted as 0
ContentLength(interaction) ==
    IF interaction.content.t = "str" THEN Len(interaction.content.v) ELSE 0

RECURSIVE TotalLength(_, _)
\* the sum of the content lengths of the first n interactions
TotalLength(list, n) ==
    IF n = 0 THEN 0 ELSE TotalLength(list, n - 1) + ContentLength(list[n])

\* the positions of the facts of a type
FactsOfType(facts, type) == {k \in 1..Len(facts) : facts[k].fact_type = type}

\* the value of the length preference for n interactions of total length total
LengthPreference(total, n) ==
    IF total > 100 * n THEN "detailed" ELSE IF total < 50 * n THEN "brief" ELSE "moderate"

InsightsOf(list, category) == {k \in 1..Len(list) : list[k].category = category}

HelpRequests(list) ==
    {i \in 1..Len(list) : IsObject(list[i]) /\ list[i].intent = PyStr("help_request")}

\* C15: process yields a "learning" insight ("prefers learning through asking
\* questions"), with confidence 0.6, if and only if more than 3 interactions
\* of the list have the intent help_request after the analysis of the
\* interactions (4 requests for help yield it, 3 do not).
C15_LearningAboveThree ==
    (pc = "done" /\ WellFormed(given)) =>
        /\ ~outcome.raised
        /\ (InsightsOf(outcome.val.insights, "learning") # {})
               <=> (Cardinality(HelpRequests(interactions)) > 3)
        /\ \A k \in InsightsOf(outcome.val.insights, "learning") :
              /\ outcome.val.insights[k].confidence = Frac(6, 10)
              /\ outcome.val.insights[k].insight = "User prefers learning through asking questions"

\* four new interactions asking "how?", and others that ask nothing
C15_Witness ==
    /\ Returned
    /\ WellFormed(given)
    /\ Cardinality({i \in 1..Len(given) : given[i].content = PyStr("how?")}) = 4
    /\ Cardinality(HelpRequests(interactions)) = 4
    /\ Len(given) > 4
    /\ Cardinality(InsightsOf(outcome.val.insights, "learning")) = 1

\* the interactions in the order of their timestamps
Chronological(list) == SortByTimestamp(list, 1, <<>>)

\* C20: the halves behind the content-length trend and the sentiment trend are
\* chronological: they are taken from the interactions ordered by timestamp
\* ascending, so both labels are those of the chronologically ordered list
\* whatever the order of the list passed in.
C20_TrendsChronological ==
    ("patterns" \in ran /\ WellFormed(given) /\ given # <<>>) =>
        /\ patterns["content_patterns"].content_length_trend =
               ContentTrend([i \in 1..Len(interactions) |->
                                ContentLength(Chronological(interactions)[i])])
        /\ patterns["sentiment_trends"].sentiment_trend =
               SentimentTrend([i \in 1..Len(interactions) |->
                                  NumOf(PyOr(Chronological(interactions)[i].sentiment, PyInt(0)))])

\* the except clause of process_user_interactions was entered
OuterFailed == CountPrefix(log, "Learning engine error: ") > 0

\* C19: when an exception reaches the outer except clause of process, the
\* result carries that exception's string as the last of its errors and is
\* otherwise the default one: new_facts = [], updated_facts = [],
\* insights = [] and processing_time_ms = 0.
C19_OuterFailureDefaults ==
    (pc = "done" /\ OuterFailed) =>
        /\ ~outcome.raised
        /\ outcome.val.errors # <<>>
        /\ log[Len(log)] =
               "Learning engine error: " \o outcome.val.errors[Len(outcome.val.errors)]
        /\ outcome.val.new_facts = <<>>
        /\ outcome.val.updated_facts = <<>>
        /\ outcome.val.insights = <<>>
        /\ outcome.val.processing_time_ms = 0

\* the loop analysed an interaction before an element that is no interaction
\* made it fail
C19_Witness ==
    /\ pc = "done"
    /\ OuterFailed
    /\ Len(given) >= 2
    /\ IsObject(given[1]) /\ given[1].sentiment = PyNone /\ given[1].processed = PyBool(FALSE)
    /\ interactions[1].sentiment # PyNone
    /\ ~IsObject(given[2])
    /\ "patterns" \notin ran
    /\ Len(outcome.val.errors) = 1

\* two facts with the same user, category and fact key
SameKey(f, g) ==
    f.user_id = g.user_id /\ f.category = g.category /\ f.fact_key = g.fact_key

UniqueKeys(rows) == \A i, j \in 1..Len(rows) : SameKey(rows[i], rows[j]) => i = j

\* the evidence count an upsert supplies, 1 when it supplies none
Supplied(kw) == IF "evidence_count" \in DOMAIN kw THEN kw.evidence_count ELSE 1

\* what a committed upsert of key made of the rows before it
UpsertEffect(before, after, key, value, kw) ==
    IF \E i \in 1..Len(before) : SameKey(before[i], key)
    THEN /\ Len(after) = Len(before)
         /\ \A i \in 1..Len(before) :
               IF SameKey(before[i], key)
               THEN /\ after[i].fact_value = value
                    /\ after[i].evidence_count = before[i].evidence_count + Supplied(kw)
                    /\ SameKey(after[i], key)
               ELSE after[i] = before[i]
    ELSE /\ Len(after) = Len(before) + 1
         /\ SubSeq(after, 1, Len(before)) = before
         /\ SameKey(after[Len(after)], key)
         /\ after[Len(after)].fact_value = value

\* C16: after any sequence of committed upserts the table holds at most one
\* fact per (user_id, category, fact_key); an upsert whose key exists
\* overwrites that fact's value and adds the supplied evidence count (1 when
\* none is supplied) to its evidence_count, and leaves the facts of other keys
\* as they were.
C16_UpsertKeepsKeysUnique ==
    /\ UniqueKeys(store)
    /\ last_upsert.done =>
          UpsertEffect(last_upsert.before, store, last_upsert.key,
                       last_upsert.fact_value, last_upsert.kw)

\* an upsert that supplied no evidence count updated one of two facts that
\* have the same user and fact key and differ in the category
C16_Witness ==
    /\ last_upsert.done
    /\ Len(last_upsert.before) = 2
    /\ Len(store) = 2
    /\ last_upsert.kw = NoKwargs
    /\ \E i \in 1..2 :
          /\ SameKey(store[i], last_upsert.key)
          /\ last_upsert.before[i].fact_value = "new"
          /\ store[i].fact_value = "old"
          /\ store[i].evidence_count = last_upsert.before[i].evidence_count + 1
    /\ store[1].user_id = store[2].user_id
    /\ store[1].fact_key = store[2].fact_key
    /\ store[1].category # store[2].category

\* the facts process returned to the handler
Emitted ==
    IF pc \in {"done", "stored"} /\ ~outcome.raised THEN outcome.val.new_facts ELSE <<>>

CarriesEvidence(fact) ==
    /\ "evidence_count" \in DOMAIN fact
    /\ fact.evidence_count \in Nat
    /\ fact.evidence_count >= 1

\* C17 as stated: every fact process emits carries an evidence count that is
\* an integer >= 1, and every stored fact has an evidence count >= 1.
C17_EveryFactCarriesEvidence ==
    /\ \A i \in 1..Len(Emitted) : CarriesEvidence(Emitted[i])
    /\ \A i \in 1..Len(store) : CarriesEvidence(store[i])

\* C17 amended: the topic_interest facts process emits carry an evidence count
\* that is an integer >= 1, its other facts carry none; every stored fact has
\* an evidence count >= 1 after any sequence of committed upserts, each of
\* which supplies an integer >= 1 or nothing.
C17_EvidenceWhereSupplied ==
    /\ \A i \in 1..Len(Emitted) :
          IF Emitted[i].fact_type = "topic_interest"
          THEN CarriesEvidence(Emitted[i])
          ELSE "evidence_count" \notin DOMAIN Emitted[i]
    /\ \A i \in 1..Len(store) : CarriesEvidence(store[i])

\* the handler stored a run's facts: the length fact, emitted without an
\* evidence count, was inserted with 1; the time fact, upserted before, got 1
\* added; a topic fact was inserted with its count
C17_Witness ==
    /\ pc = "stored"
    /\ \E i \in 1..Len(Emitted) : Emitted[i].fact_type = "topic_interest"
    /\ \E i \in 1..Len(store) :
          /\ store[i].fact_type = "message_length_preference"
          /\ store[i].evidence_count = 1
    /\ \E i \in 1..Len(store) :
          /\ store[i].fact_key = "most_active_hour"
          /\ store[i].evidence_count = 2
    /\ \E i \in 1..Len(store) :
          /\ store[i].fact_type = "topic_interest"
          /\ store[i].learning_method = "topic_analysis"
          /\ store[i].evidence_count = 3

\* what a call returned and made of its objects is what alone made of them
AsAlone(c, alone) ==
    /\ c.result = alone.call.result
    /\ \A i \in 1..Len(c.objs) : interactions[c.objs[i]] = alone.heap[c.objs[i]]

\* C18: two calls of process that run concurrently on disjoint sets of
\* interaction objects, sharing one LearningEngine, each return the new_facts,
\* insights and errors, and leave their interactions in the state, that the
\* call run alone on the objects as given returns and leaves, under every
\* interleaving of their steps.
C18_ConcurrentAsAlone ==
    \A id \in DOMAIN calls :
        calls[id].pc = "done" =>
            AsAlone(calls[id], RunAlone(Stepped(NewCall(calls[id].objs), given, <<>>, <<>>)))

\* both calls have returned, each was under way during steps of the other,
\* each recorded an error of its own and call 1 derived facts
C18_Witness ==
    /\ DOMAIN calls = CallIds
    /\ \A id \in CallIds :
          /\ calls[id].pc = "done"
          /\ calls[id].met
          /\ Len(calls[id].result.val.errors) = 1
    /\ calls[1].result.val.errors # calls[2].result.val.errors
    /\ calls[1].result.val.new_facts # <<>>
    /\ \E i \in 1..Len(given) : interactions[i] # given[i]

\* C21: process emits topic_interest facts only for topics that are among the
\* five most frequent topics (frequency order, ties by first occurrence) and
\* occur at least 3 times; so a run has at most 5 topic_interest facts and a
\* topic ranked sixth or lower has none.
C21_TopicFactsOnlyTopFive ==
    Returned =>
        /\ Cardinality(FactsOfType(outcome.val.new_facts, "topic_interest")) <= 5
        /\ WellFormed(given) =>
              \A k \in FactsOfType(outcome.val.new_facts, "topic_interest") :
                  \E topic \in TopicsOf(interactions) :
                      /\ outcome.val.new_facts[k].fact_key = "interest_" \o topic
                      /\ outcome.val.new_facts[k].evidence_count = TotalCount(interactions, topic)
                      /\ TotalCount(interactions, topic) >= 3
                      /\ Rank(interactions, topic) <= 5

\* six topics occur 3 times or more and five facts are emitted
C21_Witness ==
    /\ Returned
    /\ WellFormed(given)
    /\ Cardinality({topic \in TopicsOf(interactions) :
                       TotalCount(interactions, topic) >= 3}) = 6
    /\ Cardinality(FactsOfType(outcome.val.new_facts, "topic_interest")) = 5

\* C24: process does not analyse an interaction already marked processed: its
\* sentiment, topics and intent stay as they were, unset included; and process
\* never changes the processed flag, content, timestamp or type of any
\* interaction.
C24_ProcessedLeftAlone ==
    /\ Len(interactions) = Len(given)
    /\ \A i \in 1..Len(given) :
          IF IsObject(given[i])
          THEN /\ interactions[i].processed = given[i].processed
               /\ interactions[i].content = given[i].content
               /\ interactions[i].timestamp = given[i].timestamp
               /\ interactions[i].interaction_type = given[i].interaction_type
               /\ Truthy(given[i].processed) => interactions[i] = given[i]
          ELSE interactions[i] = given[i]

\* the call returned; a processed interaction still has no sentiment and no
\* intent, while an unprocessed one of the same list was filled in
C24_Witness ==
    /\ Returned
    /\ \E i \in 1..Len(given) :
          /\ IsObject(given[i])
          /\ Truthy(given[i].processed)
          /\ interactions[i].sentiment = PyNone
          /\ interactions[i].intent = PyNone
    /\ \E i \in 1..Len(given) :
          /\ IsObject(given[i])
          /\ ~Truthy(given[i].processed)
          /\ given[i].sentiment = PyNone
          /\ interactions[i].sentiment # PyNone

\* the count top_topics holds for a topic, 0 when it holds none
CountOfTopic(top_topics, topic) ==
    IF \E k \in 1..Len(top_topics) : top_topics[k][1] = topic
    THEN top_topics[CHOOSE k \in 1..Len(top_topics) : top_topics[k][1] = topic][2]
    ELSE 0

\* C25: the pattern analysis and the derivations after it use the full list:
\* the interactions already marked processed count toward the interaction
\* count, the mean content length, the topic counts and the number of
\* help requests.
C25_FullListAnalysed ==
    /\ ("patterns" \in ran /\ interactions # <<>>) =>
          /\ {"interaction_frequency", "content_patterns", "topic_preferences"}
                 \subseteq DOMAIN patterns
          /\ patterns["interaction_frequency"].interaction_count = Len(interactions)
          /\ patterns["content_patterns"].average_content_length.n * Len(interactions) =
                 TotalLength(interactions, Len(interactions))
                     * patterns["content_patterns"].average_content_length.d
          /\ \A topic \in TopicsOf(interactions) :
                 CountOfTopic(patterns["topic_preferences"].top_topics, topic) =
                     TotalCount(interactions, topic)
    /\ pc = "done" =>
          (InsightsOf(outcome.val.insights, "learning") # {}
              <=> Cardinality(HelpRequests(interactions)) > 3)

\* of five interactions the four marked processed are requests for help and
\* the new one is not: the learning insight is there, and the mean length
\* counts all five
C25_Witness ==
    /\ Returned
    /\ Len(given) = 5
    /\ Cardinality({i \in 1..5 : Truthy(given[i].processed)}) = 4
    /\ Cardinality(HelpRequests(interactions)) = 4
    /\ \A i \in HelpRequests(interactions) : Truthy(given[i].processed)
    /\ InsightsOf(outcome.val.insights, "learning") # {}
    /\ patterns["interaction_frequency"].interaction_count = 5

\* the sentiment of an interaction as a fraction, a missing one counted as 0
SentimentOf(interaction) ==
    IF interaction.sentiment.t \in {"float", "int"} THEN NumOf(interaction.sentiment)
    ELSE FracOfInt(0)

\* the positions of the last min(10, n) interactions of a list of n
LastTen(list) == {i \in 1..Len(list) : i > Len(list) - 10}

RECURSIVE DenominatorsTo(_, _)
\* the product of the denominators of the sentiments at the positions of the
\* set that are not above n
DenominatorsTo(list, n) ==
    IF n = 0 \/ n \notin LastTen(list) THEN 1
    ELSE SentimentOf(list[n]).d * DenominatorsTo(list, n - 1)

RECURSIVE SentimentsTo(_, _, _)
\* the sum of the sentiments of the last interactions up to position n, in
\* units of 1/scale
SentimentsTo(list, n, scale) ==
    IF n = 0 \/ n \notin LastTen(list) THEN 0
    ELSE SentimentOf(list[n]).n * (scale \div SentimentOf(list[n]).d)
             + SentimentsTo(list, n - 1, scale)

\* the mean sentiment of the last min(10, n) interactions is above 1/10
RecentlyPositive(list) ==
    /\ list # <<>>
    /\ 10 * SentimentsTo(list, Len(list), DenominatorsTo(list, Len(list)))
           > Cardinality(LastTen(list)) * DenominatorsTo(list, Len(list))

\* C28: process yields the positive-communication insight (category
\* "communication", confidence 0.7) if and only if the mean sentiment of the
\* last min(10, n) interactions of the list, as they stand after the analysis
\* and with a missing sentiment counted as 0, is greater than 0.1; there is
\* never more than one such insight.
C28_PositiveCommunication ==
    (pc = "done" /\ WellFormed(given)) =>
        /\ ~outcome.raised
        /\ Cardinality(InsightsOf(insights, "communication")) <= 1
        /\ (InsightsOf(insights, "communication") # {}) <=> RecentlyPositive(interactions)
        /\ \A k \in InsightsOf(insights, "communication") :
              /\ insights[k].confidence = Frac(7, 10)
              /\ insights[k].insight = "User generally communicates with positive sentiment"

\* eleven interactions, three with a stored sentiment of 1/2 and then eight
\* with none: the mean of all eleven is above 0.1, the mean of the last ten is
\* exactly 0.1, and there is no insight
C28_Witness ==
    /\ pc = "done"
    /\ Len(interactions) = 11
    /\ \A i \in 1..3 : interactions[i].sentiment = PyFloat(Frac(1, 2))
    /\ \A i \in 4..11 : interactions[i].sentiment = PyNone
    /\ ~RecentlyPositive(interactions)
    /\ InsightsOf(insights, "communication") = {}

\* C29: within the result of one call of process on a well-formed list no two
\* facts share (category, fact key), and new_facts holds at most 7 facts: at
\* most one time_preference, at most one message_length_preference and at most
\* five topic_interest facts, and none of another type.
C29_FactKeysUniqueInResult ==
    (Returned /\ WellFormed(given)) =>
        LET facts == outcome.val.new_facts
        IN /\ Len(facts) <= 7
           /\ Cardinality(FactsOfType(facts, "time_preference")) <= 1
           /\ Cardinality(FactsOfType(facts, "message_length_preference")) <= 1
           /\ Cardinality(FactsOfType(facts, "topic_interest")) <= 5
           /\ \A k \in 1..Len(facts) :
                 facts[k].fact_type \in
                     {"time_preference", "message_length_preference", "topic_interest"}
           /\ \A j, k \in 1..Len(facts) :
                 (facts[j].category = facts[k].category
                      /\ facts[j].fact_key = facts[k].fact_key) => j = k

\* a result with seven facts, one of each of the two preferences and five
\* interests, out of a list where six topics are frequent enough
C29_Witness ==
    /\ Returned
    /\ WellFormed(given)
    /\ Len(outcome.val.new_facts) = 7
    /\ Cardinality(FactsOfType(outcome.val.new_facts, "time_preference")) = 1
    /\ Cardinality(FactsOfType(outcome.val.new_facts, "message_length_preference")) = 1
    /\ Cardinality({topic \in TopicsOf(interactions) :
                       TotalCount(interactions, topic) >= 3}) > 5

\* the label of the content-length trend for a first part of h lengths of sum
\* first and a second part of k lengths of sum second: the means second / k and
\* first / h, compared after multiplying both sides by 10 * h * k
TrendLabel(first, h, second, k) ==
    IF 10 * h * second > 11 * k * first THEN "increasing"
    ELSE IF 10 * h * second < 9 * k * first THEN "decreasing"
    ELSE "stable"

\* C27: the content-length trend is "stable" when fewer than 6 interactions are
\* analysed; with n >= 6 the mean of the first n div 2 lengths of the list is
\* compared with the mean of the others: "increasing" if the second mean is
\* greater than 1.1 times the first, "decreasing" if it is less than 0.9 times
\* the first, "stable" otherwise.
C27_ContentLengthTrend ==
    ("patterns" \in ran /\ WellFormed(given) /\ given # <<>>) =>
        /\ "content_patterns" \in DOMAIN patterns
        /\ LET n == Len(interactions)
               h == n \div 2
               first == TotalLength(interactions, h)
               second == TotalLength(interactions, n) - first
           IN patterns["content_patterns"].content_length_trend =
                  IF n < 6 THEN "stable" ELSE TrendLabel(first, h, second, n - h)

\* ten interactions whose second mean is exactly 0.9 times the first (100 and
\* 90): the trend is "stable"
C27_Witness ==
    /\ "patterns" \in ran
    /\ WellFormed(given)
    /\ Len(interactions) = 10
    /\ TotalLength(interactions, 5) = 500
    /\ TotalLength(interactions, 10) = 950
    /\ patterns["content_patterns"].content_length_trend = "stable"

\* five interactions, two of 101 characters and then three of none: the second
\* mean is far below the first, and the trend is "stable"
C27_WitnessShort ==
    /\ "patterns" \in ran
    /\ WellFormed(given)
    /\ Len(interactions) = 5
    /\ TotalLength(interactions, 2) = 202
    /\ TotalLength(interactions, 5) = 202
    /\ patterns["content_patterns"].content_length_trend = "stable"

\* C26: calling process a second time on the same list of objects returns the
\* same new_facts and the same insights (category, text, confidence, evidence)
\* as the first call, and changes no field of any interaction.
C26_SecondCallSame ==
    /\ [](calls[2].pc = "done" =>
             /\ calls[1].pc = "done"
             /\ calls[2].result.val.new_facts = calls[1].result.val.new_facts
             /\ calls[2].result.val.insights = calls[1].result.val.insights)
    /\ [][calls[1].pc = "done" => interactions' = interactions]_vars

\* the second call has returned facts and insights for a list whose
\* interactions the first call had enriched
C26_Witness ==
    /\ calls[2].pc = "done"
    /\ calls[2].result.val.new_facts # <<>>
    /\ calls[2].result.val.insights # <<>>
    /\ interactions # given

\* the requests of a client admitted through the decorator of an endpoint
\* among the first n answered, whose arrival lies within the window at time t
AdmittedWithin(client, endpoint, n, t) ==
    {i \in 1..n : /\ responses[i].client = client
                  /\ responses[i].endpoint = endpoint
                  /\ responses[i].status = 200
                  /\ t - responses[i].time < WindowOf(endpoint)}

\* C30: for each client id, in any sequence of requests through a rate_limit
\* decorator, the number of admitted requests whose arrival times lie within
\* the last `window` seconds never exceeds `limit`; a request answered 429 is
\* not recorded and does not count toward later decisions; and a request is
\* admitted as soon as fewer than `limit` admitted requests remain inside the
\* window, and only then.
C30_AdmittedWithinLimit ==
    /\ \A client \in Clients, endpoint \in Endpoints :
          Cardinality(AdmittedWithin(client, endpoint, Len(responses), clock))
              <= LimitOf(endpoint)
    /\ \A client \in Clients :
          Len(rate_limit_store[client])
              <= Cardinality({i \in 1..Len(responses) :
                                 responses[i].client = client /\ responses[i].status = 200})
    /\ \A n \in 1..Len(responses) :
          responses[n].status = 200 <=>
              Cardinality(AdmittedWithin(responses[n].client, responses[n].endpoint,
                                         n - 1, responses[n].time))
                  < LimitOf(responses[n].endpoint)

\* the rows that hold a fact of the key of fact_data
RowsOfKey(rows, fact_data) ==
    {i \in 1..Len(rows) : /\ rows[i].user_id = fact_data.user_id
                          /\ rows[i].category = fact_data.category
                          /\ rows[i].fact_key = fact_data.fact_key}

\* the requests answered whose learning run analysed the interaction x and
\* whose run and fact storage did not fail
RunsOn(x) ==
    {n \in 1..Len(answered) : x \in answered[n].analysed /\ answered[n].failed # "storage"}

\* the interactions a learning run has analysed in a request answered so far
EverAnalysed == UNION {answered[n].analysed : n \in 1..Len(answered)}

\* C22: across any sequence of create-interaction and trigger-learning
\* requests for a user with learning enabled, each interaction is analysed by
\* exactly one learning run and its processed flag becomes true, only after the
\* facts of that run have been stored; if the run or the fact storage fails,
\* neither the new facts nor the processed flags are persisted.
C22_AnalysedOnceThenFlagged ==
    /\ [](\A x \in EverAnalysed : Cardinality(RunsOn(x)) <= 1)
    /\ [](\A x \in EverAnalysed : \A n \in RunsOn(x) :
             /\ x \in 1..Len(db.interactions)
             /\ db.interactions[x].processed = PyBool(TRUE))
    /\ [](\A r \in RequestIds :
             (sessions[r].pc # "none"
                  /\ \E k \in 1..Len(sessions[r].objs) :
                        sessions[r].objs[k].processed = PyBool(TRUE))
                 => sessions[r].fact_idx = Len(sessions[r].new_facts))
    /\ [](\A i \in 1..Len(db.interactions) :
             db.interactions[i].processed = PyBool(TRUE) =>
                 \E n \in 1..Len(answered) :
                     /\ answered[n].status = 200
                     /\ i \in answered[n].flagged
                     /\ \A j \in 1..Len(answered[n].new_facts) :
                           RowsOfKey(db.facts, answered[n].new_facts[j]) # {})
    /\ [][(Len(answered') > Len(answered) /\ answered'[Len(answered')].failed = "storage")
             => db' = db]_vars

\* C23: facts stay uniquely keyed by (user id, category, fact key) in the
\* table also when two learning requests for the same user run at the same
\* time and both upsert a fact of the same key: under every interleaving the
\* table ends with exactly one fact for that key.
C23_ConcurrentUpsertsUnique ==
    /\ UniqueKeys(db.facts)
    /\ \A n \in 1..Len(answered) :
          answered[n].status = 200 =>
              \A j \in 1..Len(answered[n].new_facts) :
                  Cardinality(RowsOfKey(db.facts, answered[n].new_facts[j])) = 1

====
